---- MODULE Spec2Model ----
(***************************************************************************)
(* Model of the table configurator (js/main.js, js/modules/tableModel.js,  *)
(* js/modules/materials.js, js/modules/utils.js): the rebuild life cycle   *)
(* of the 3D table assembly.                                               *)
(*                                                                         *)
(* The browser is single threaded: every event handler and every timer     *)
(* callback runs to completion, so each is one action.  Time is the        *)
(* millisecond clock of setTimeout; it advances in steps of Grid ms, or   *)
(* to the next deadline, and a timer fires when the clock has reached its  *)
(* deadline, the earliest deadline first and, for equal deadlines, the     *)
(* earliest registered first.                                              *)
(*                                                                         *)
(* Dimension values are kept in tenths of a centimetre, so that the bound  *)
(* 0.3 cm is an integer: 1090 is 109 cm.                                   *)
(*                                                                         *)
(* Handles of the 3D library (geometries, materials, textures, groups) are *)
(* recorded per build: builds[i] holds every handle created by the i-th    *)
(* run of createTable, with a flag for each dispose() call it received.    *)
(***************************************************************************)
EXTENDS Integers, Sequences, FiniteSets, TLC

VARIABLES
    appState,                \* main.js: the global configuration object
    now,                     \* the clock, in ms
    timers,                  \* pending setTimeout callbacks, in registration order
    inThrottle,              \* utils.js throttle: the flag of each control's closure
    tableModelGroup,         \* tableModel.js module state: build id or Null
    shadowPlane,             \* tableModel.js module state: build id or Null
    isModelCurrentlyLoaded,  \* tableModel.js module state: the ready flag
    scene,                   \* objects attached to the THREE.Scene
    builds,                  \* the handles created by each createTable run
    header,                  \* the text parts written by updateModelHeader
    edits,                   \* history: the accepted dimension edits
    nEvents,                 \* history: number of UI events so far
    lastEvent,               \* history: kind of the latest UI event
    nFailures,               \* history: number of environment failures so far
    nTicks,                  \* history: number of clock steps so far
    limits,                  \* the numbers of UI events, clock steps and
                             \* failing constructors that the run may have,
                             \* and the inputs it may use
    localStorage,            \* the item 'masaKraftState', or NoItem
    dimensionGroup,          \* dimensionLabels.js module state: the overlay group
    isLabelsVisible,         \* dimensionLabels.js module state
    dimensionsBtn,           \* whether the annotation button has the class 'active'
    console,                 \* numbers of messages written to the console
    lastInput,               \* history: the latest dimension input and its outcome
    priceDisplay,            \* the pricing summary of the page and what it was computed from
    labelMeshes,             \* dimensionLabels.js module state: the label of each dimension
    lineMeshes               \* dimensionLabels.js module state: the lines of each dimension

vars == <<appState, now, timers, inThrottle, tableModelGroup, shadowPlane,
          isModelCurrentlyLoaded, scene, builds, header, edits, nEvents,
          lastEvent, nFailures, nTicks, limits, localStorage, dimensionGroup,
          isLabelsVisible, dimensionsBtn, console, lastInput, priceDisplay,
          labelMeshes, lineMeshes>>

overlayVars == <<dimensionGroup, isLabelsVisible, dimensionsBtn, labelMeshes, lineMeshes>>

----------------------------------------------------------------------------
(* Bounds of the model *)

\* Spec: number of clock steps and of UI events in one run
MaxSteps == 3
MaxEvents == 1
\* SpecEdit: the same for runs of rapid edits
EditSteps == 4
EditEvents == 3
\* number of environment failures in one run (a constructor of the 3D
\* library throwing, a texture failing to load)
MaxFailures == 1
\* number of texture completions delivered in one run
MaxTexLoads == 1
\* SpecInput: clock steps and UI events of runs that type into every control
InputSteps == 2
InputEvents == 1
\* SpecStore: clock steps and UI events of runs that start with a stored item
StoreSteps == 2
StoreEvents == 1
\* SpecSave: clock steps and UI events of runs that save and load again
SaveSteps == 2
SaveEvents == 2
\* SpecNoGL: clock steps and UI events of runs in a browser without WebGL
NoGLSteps == 2
NoGLEvents == 2
\* SpecBuild: clock steps of runs that build a saved configuration
BuildSteps == 2
\* SpecPrice: clock steps and UI events of runs of a page with a pricing summary
PriceSteps == 5
PriceEvents == 1
\* SpecColor: clock steps and UI events of runs that pick colours and materials
ColorSteps == 3
ColorEvents == 2
\* SpecLabels: clock steps and UI events of runs of a page with annotations
LabelSteps == 4
LabelEvents == 2
\* SpecOverlay: clock steps and UI events of runs that edit, toggle, change
\* the style and load the page again while frames are drawn
OverlaySteps == 3
OverlayEvents == 2
\* SpecStyles: clock steps and UI events of runs that restore a stored item
\* with any style strings and click a style option
StylesSteps == 2
StylesEvents == 1

----------------------------------------------------------------------------
(* Program constants *)

\* main.js:348  setTimeout(..., 50) in updateTableModel
CreateDelay == 50
\* main.js:604  throttle(..., 100)
ThrottleLimit == 100
\* main.js:609  debounce(..., 50)
DebounceDelay == 50
\* tableModel.js:86  setTimeout(..., 350) in createTable
LoadedDelay == 350
\* the clock step: the shortest delay of the program
Grid == CreateDelay

Null == 0

\* main.js:641-666, in tenths of a centimetre
DimRange(dim) ==
    CASE dim = "width"     -> [min |-> 800,  max |-> 1800]
      [] dim = "length"    -> [min |-> 1000, max |-> 2400]
      [] dim = "height"    -> [min |-> 650,  max |-> 850]
      [] dim = "thickness" -> [min |-> 3,    max |-> 50]

\* main.js:600  the sliders of the page, one for each dimension
Controls ==
    { [dim |-> d, type |-> "range"] : d \in {"width", "length", "height", "thickness"} }

WidthSlider == [dim |-> "width", type |-> "range"]
ThicknessSlider == [dim |-> "thickness", type |-> "range"]

\* main.js:620  what parseFloat returns for a text that starts with no number
NaN == -1000000

\* main.js:623  isNaN(value)
isNaN(value) == value = NaN

\* the comparisons of JavaScript: false when an operand is NaN
JsLess(x, y) == ~isNaN(x) /\ ~isNaN(y) /\ x < y

\* the values typed or dragged into a control: the ends of its range
InputValues(dim) ==
    CASE dim = "width"     -> {800, 1800}
      [] dim = "length"    -> {1000, 2400}
      [] dim = "height"    -> {650, 850}
      [] dim = "thickness" -> {3, 50}

\* further values typed into a control: a tenth below and above its range
\* (79.9 and 180.1 for the width), and a text that is no number
ProbeValues(dim) ==
    {DimRange(dim).min - 1, DimRange(dim).max + 1, NaN}

\* the entries of the material grid that the runs click
MaterialOptions == {"mese"}

\* the entries of the colour bar that the runs click: data-color and data-name
ColorOptions == { [color |-> "#FFFFFF", name |-> "Beyaz"] }

\* the text of .material-name in the entries of the material grid
MaterialDisplayName(materialIdentifier) ==
    CASE materialIdentifier = "mese"  -> "Mese"
      [] materialIdentifier = "ceviz" -> "Ceviz"
      [] OTHER -> materialIdentifier

\* main.js:543-558  materialColor: the entries of the page carry no
\* .material-preview whose computed background parses, so that the default
\* of main.js:543 stays
materialColor(materialIdentifier) == "#FFFFFF"

\* new THREE.Color of a string '#rrggbb': the number 0xrrggbb
ColorValue(hex) ==
    CASE hex = "#654321" -> 6636321
      [] hex = "#FFFFFF" -> 16777215

\* the style buttons of the page that the runs click
StyleOptions ==
    { [attr |-> "edge", value |-> "beveled"] }

\* materials.js:10-41  MATERIALS: the catalog ids and the colour of each entry
\* (the id written with s-cedilla in the source is spelled "hus" here)
MATERIALS ==
    [ m \in {"ceviz", "mogano", "mese", "hus", "ebene", "geyik"} |->
        CASE m = "ceviz"  -> 6967099
          [] m = "mogano" -> 9194044
          [] m = "mese"   -> 13153690
          [] m = "hus"    -> 10128504
          [] m = "ebene"  -> 2763559
          [] m = "geyik"  -> 8154978 ]

----------------------------------------------------------------------------
(* main.js: appState and the configuration snapshot *)

\* main.js:16-34
InitialAppState ==
    [ tableWidth          |-> 1090,
      tableLength         |-> 1500,
      tableHeight         |-> 750,
      tableThickness      |-> 30,
      currentMaterial     |-> "ceviz",
      currentColor        |-> "#654321",
      currentColorName    |-> "Koyu Kahverengi",
      currentMaterialInfo |-> "ceviz",
      currentMaterialName |-> "Ceviz",
      edgeStyle           |-> "straight",
      legStyle            |-> "standard",
      scene               |-> "null" ]

\* main.js:321-329  var config = {...}
ConfigOf(a) ==
    [ width     |-> a.tableWidth,
      length    |-> a.tableLength,
      height    |-> a.tableHeight,
      thickness |-> a.tableThickness,
      material  |-> a.currentMaterial,
      edgeStyle |-> a.edgeStyle,
      legStyle  |-> a.legStyle ]

NoConfig == ConfigOf(InitialAppState)

ConfigDimension(cfg, dim) ==
    CASE dim = "width"     -> cfg.width
      [] dim = "length"    -> cfg.length
      [] dim = "height"    -> cfg.height
      [] dim = "thickness" -> cfg.thickness

\* a number text that drops the decimal
NumberTextTruncated(n) ==
    [neg |-> n < 0, int |-> (IF n < 0 THEN -n ELSE n) \div 10, frac |-> 0]

\* the text that JSON.stringify writes for a number with at most one
\* decimal (the model counts in tenths): sign, integer part, decimal digit
NumberText(n) ==
    LET abs == IF n < 0 THEN -n ELSE n IN
    [neg |-> n < 0, int |-> abs \div 10, frac |-> abs % 10]

\* the number that JSON.parse reads from such a text
ParseNumber(t) ==
    LET abs == t.int * 10 + t.frac IN
    IF t.neg THEN -abs ELSE abs

\* x || y of JavaScript on numbers and on strings
OrNumber(x, y) == IF x = 0 \/ isNaN(x) THEN y ELSE x
OrString(x, y) == IF x = "" THEN y ELSE x

\* localStorage.getItem returns null
NoItem == [absent |-> TRUE]

\* main.js:40-63  saveStateToLocalStorage: the item written for appState a
saveStateToLocalStorage(a) ==
    [ tableWidth          |-> NumberText(a.tableWidth),
      tableLength         |-> NumberText(a.tableLength),
      tableHeight         |-> NumberText(a.tableHeight),
      tableThickness      |-> NumberText(a.tableThickness),
      currentColor        |-> a.currentColor,
      currentColorName    |-> a.currentColorName,
      currentMaterialInfo |-> a.currentMaterialInfo,
      currentMaterialName |-> a.currentMaterialName,
      edgeStyle           |-> a.edgeStyle,
      legStyle            |-> a.legStyle ]

\* loadStateFromLocalStorage without the assignment of main.js:90
loadStateFromLocalStorageInfoOnly(a, item) ==
    [a EXCEPT
        !.tableWidth          = OrNumber(ParseNumber(item.tableWidth), a.tableWidth),
        !.tableLength         = OrNumber(ParseNumber(item.tableLength), a.tableLength),
        !.tableHeight         = OrNumber(ParseNumber(item.tableHeight), a.tableHeight),
        !.tableThickness      = OrNumber(ParseNumber(item.tableThickness), a.tableThickness),
        !.currentColor        = OrString(item.currentColor, a.currentColor),
        !.currentColorName    = OrString(item.currentColorName, a.currentColorName),
        !.currentMaterialInfo = OrString(item.currentMaterialInfo, a.currentMaterialInfo),
        !.currentMaterialName = OrString(item.currentMaterialName, a.currentMaterialName),
        !.edgeStyle           = OrString(item.edgeStyle, a.edgeStyle),
        !.legStyle            = OrString(item.legStyle, a.legStyle)]

\* main.js:76-90  loadStateFromLocalStorage: appState a after the item has
\* been parsed and copied into it
loadStateFromLocalStorage(a, item) ==
    LET info == OrString(item.currentMaterialInfo, a.currentMaterialInfo) IN
    [a EXCEPT
        !.tableWidth          = OrNumber(ParseNumber(item.tableWidth), a.tableWidth),
        !.tableLength         = OrNumber(ParseNumber(item.tableLength), a.tableLength),
        !.tableHeight         = OrNumber(ParseNumber(item.tableHeight), a.tableHeight),
        !.tableThickness      = OrNumber(ParseNumber(item.tableThickness), a.tableThickness),
        !.currentColor        = OrString(item.currentColor, a.currentColor),
        !.currentColorName    = OrString(item.currentColorName, a.currentColorName),
        !.currentMaterialInfo = info,
        !.currentMaterialName = OrString(item.currentMaterialName, a.currentMaterialName),
        !.edgeStyle           = OrString(item.edgeStyle, a.edgeStyle),
        !.legStyle            = OrString(item.legStyle, a.legStyle),
        !.currentMaterial     = info]
NoControl == [dim |-> "none", type |-> "none"]

----------------------------------------------------------------------------
(* materials.js *)

\* materials.js:43-49  getMaterialProperties: unknown ids fall back to 'ceviz'
getMaterialProperties(materialName) ==
    IF materialName \in DOMAIN MATERIALS
    THEN [id |-> materialName, color |-> MATERIALS[materialName]]
    ELSE [id |-> "ceviz", color |-> MATERIALS["ceviz"]]

\* materials.js:47  the console.warn calls of one getMaterialProperties call
FallbackWarnings(materialName) ==
    IF materialName \in DOMAIN MATERIALS THEN 0 ELSE 1

\* materials.js:96-97  the console.error calls of one onError callback
TextureErrorLogs == 2

\* handle is the identity of the object: two records with the same handle
\* are one object of the 3D library
NoMaterial ==
    [created |-> FALSE, disposed |-> FALSE, kind |-> "none", map |-> "none",
     color |-> 0, needsUpdate |-> FALSE, handle |-> Null]

NoTexture ==
    [created |-> FALSE, disposed |-> FALSE, status |-> "none",
     wrapS |-> "none", wrapT |-> "none", anisotropy |-> 0,
     encoding |-> "none", needsUpdate |-> FALSE, handle |-> Null]

\* materials.js:72-73  the texture object that TextureLoader.load returns at
\* once, with the defaults of THREE.Texture; its image arrives later
NewTexture ==
    [created |-> TRUE, disposed |-> FALSE, status |-> "loading",
     wrapS |-> "ClampToEdgeWrapping", wrapT |-> "ClampToEdgeWrapping",
     anisotropy |-> 1, encoding |-> "LinearEncoding", needsUpdate |-> FALSE,
     handle |-> Null]

\* a createMaterial that keeps one material and one texture for all its calls
createMaterialShared(materialName, failure, serial) ==
    LET materialProps == getMaterialProperties(materialName) IN
    IF failure = "load"
    THEN [ mat |-> [created |-> TRUE, disposed |-> FALSE, kind |-> "ErrorMaterial",
                    map |-> "none", color |-> 65280, needsUpdate |-> TRUE,
                    handle |-> 1],
           tex |-> NoTexture ]
    ELSE [ mat |-> [created |-> TRUE, disposed |-> FALSE, kind |-> "Material",
                    map |-> "texture", color |-> materialProps.color,
                    needsUpdate |-> TRUE, handle |-> 1],
           tex |-> [NewTexture EXCEPT !.handle = 1] ]

\* materials.js:51-132  createMaterial.  failure = "load" is
\* textureLoader.load throwing inside the function's own try block
\* (materials.js:114-120): the function then returns the error material.
\* serial is the number of the call: textureLoader.load (materials.js:72)
\* and new THREE.MeshPhysicalMaterial (materials.js:107, 116) return objects
\* that did not exist before the call.
\* The result is the pair of the material and the texture created for it.
createMaterial(materialName, failure, serial) ==
    LET materialProps == getMaterialProperties(materialName) IN
    IF failure = "load"
    THEN [ mat |-> [created |-> TRUE, disposed |-> FALSE, kind |-> "ErrorMaterial",
                    map |-> "none", color |-> 65280, needsUpdate |-> TRUE,
                    handle |-> serial],
           tex |-> NoTexture ]
    ELSE [ mat |-> [created |-> TRUE, disposed |-> FALSE, kind |-> "Material",
                    map |-> "texture", color |-> materialProps.color,
                    needsUpdate |-> TRUE, handle |-> serial],
           tex |-> [NewTexture EXCEPT !.handle = serial] ]

\* materials.js:134-142  createMetalMaterial
createMetalMaterial ==
    [created |-> TRUE, disposed |-> FALSE, kind |-> "MetalLegMaterial",
     map |-> "none", color |-> 3355443, needsUpdate |-> FALSE, handle |-> Null]

\* materials.js:74-93  the onLoad callback of the texture of one build
onTextureLoad(b) ==
    LET loaded == [b.tex EXCEPT !.status = "loaded",
                                !.needsUpdate = TRUE,
                                !.wrapS = "RepeatWrapping",
                                !.wrapT = "RepeatWrapping",
                                !.anisotropy = 16,
                                !.encoding = "sRGBEncoding"]
    IN  \* finalMaterial.map is the texture that load returned, unless the
        \* material has lost its map
        IF b.topMat.created /\ b.topMat.map # "texture"
        THEN [b EXCEPT !.tex = loaded,
                       !.topMat.map = "texture", !.topMat.needsUpdate = TRUE]
        ELSE [b EXCEPT !.tex = loaded]

\* materials.js:95-104  the onError callback of the texture of one build
onTextureError(b) ==
    IF b.topMat.created
    THEN [b EXCEPT !.tex.status = "failed",
                   !.topMat.map = "none",
                   !.topMat.color = 16711680,
                   !.topMat.needsUpdate = TRUE]
    ELSE [b EXCEPT !.tex.status = "failed"]

----------------------------------------------------------------------------
(* tableModel.js *)

Obj(kind, id) == <<kind, id>>

\* one mesh of the assembly: its name, which of the two materials it
\* carries, and whether its geometry has been disposed
Mesh(name, material) == [name |-> name, material |-> material, disposed |-> FALSE]

\* lengths in the scene are counted in hundred-thousandths of a metre, so
\* that every product of the builders below is a whole number
PerMetre == 100000

\* tableModel.js:44  the divisor of config.width / 100
CmPerMetre == 100

\* a conversion that takes the centimetres for millimetres
ToMetresFromMillimetres(x) == (x * PerMetre) \div (100 * CmPerMetre)

\* tableModel.js:43-47  config.x / 100: centimetres to metres.  The
\* configuration counts in tenths of a centimetre.
ToMetres(x) == (x * PerMetre) \div (10 * CmPerMetre)

Max(x, y) == IF x >= y THEN x ELSE y
Min(x, y) == IF x <= y THEN x ELSE y

\* x * (num / den) for the decimal factors of the builders
Times(x, num, den) == (x * num) \div den

Vector3(x, y, z) == [x |-> x, y |-> y, z |-> z]

\* new THREE.Mesh(new THREE.BoxGeometry(size.x, size.y, size.z), material)
\* placed at position inside parent
BoxMesh(name, material, size, position, parent) ==
    [name |-> name, material |-> material, geometry |-> "BoxGeometry",
     size |-> size, position |-> position, parent |-> parent]

\* THREE.ExtrudeGeometry of a shape that spans width by length, after
\* geometry.center() and geometry.rotateX(Math.PI / 2): with bevelEnabled the
\* library moves the outline outwards by bevelSize + bevelOffset and adds
\* bevelThickness below and above the depth.  The result is the box that
\* bounds the geometry.
ExtrudeBounds(width, length, settings) ==
    Vector3(width + 2 * (settings.bevelSize + settings.bevelOffset),
            settings.depth + 2 * settings.bevelThickness,
            length + 2 * (settings.bevelSize + settings.bevelOffset))

\* an extruded table top; size is the box that bounds its geometry
ExtrudeMesh(name, material, size, position, parent) ==
    [name |-> name, material |-> material, geometry |-> "ExtrudeGeometry",
     size |-> size, position |-> position, parent |-> parent]

\* tableModel.js:151-171  createBeveledTableTopGeometry, placed by
\* createTableWithStyle (tableModel.js:135-136)
createBeveledTableTopGeometry(width, length, height, thickness) ==
    ExtrudeMesh("TableTop", "top",
                ExtrudeBounds(width, length,
                    [depth          |-> thickness,
                     bevelThickness |-> Times(thickness, 15, 100),
                     bevelSize      |-> Times(thickness, 10, 100),
                     bevelOffset    |-> -Times(thickness, 5, 100)]),
                Vector3(0, height - thickness \div 2, 0), "tableModelGroup")

\* tableModel.js:173-193  createRoundedTableTopGeometry, placed likewise
createRoundedTableTopGeometry(width, length, height, thickness) ==
    ExtrudeMesh("TableTop", "top",
                ExtrudeBounds(width, length,
                    [depth          |-> thickness,
                     bevelThickness |-> Times(thickness, 10, 100),
                     bevelSize      |-> Times(thickness, 8, 100),
                     bevelOffset    |-> 0]),
                Vector3(0, height - thickness \div 2, 0), "tableModelGroup")

\* tableModel.js:131-136  the table top with straight edges
createStraightTableTop(width, length, height, thickness) ==
    BoxMesh("TableTop", "top", Vector3(width, thickness, length),
            Vector3(0, height - thickness \div 2, 0), "tableModelGroup")

\* tableModel.js:195-212  createStandardLegsGeometry: four posts
createStandardLegsGeometry(width, length, height, thickness) ==
    LET legSize   == Max(Times(PerMetre, 4, 100), Times(Min(width, length), 5, 100))
        legHeight == height - thickness
        inset     == Max(Times(PerMetre, 5, 100), Times(Min(width, length), 10, 100))
        leg(index, sx, sz) ==
            BoxMesh(index, "leg", Vector3(legSize, legHeight, legSize),
                    Vector3(sx * (width \div 2 - inset), legHeight \div 2,
                            sz * (length \div 2 - inset)),
                    "tableModelGroup")
    IN  << leg("StandardLeg_0", 1, 1), leg("StandardLeg_1", -1, 1),
           leg("StandardLeg_2", 1, -1), leg("StandardLeg_3", -1, -1) >>

\* U-shaped legs without their connectors
createUShapeLegsNoConnectors(width, length, height, thickness) ==
    LET all == createStandardLegsGeometry(width, length, height, thickness) IN
    [k \in 1..Len(all) |-> [all[k] EXCEPT !.name = "ULeg"]]

\* tableModel.js:214-233  createUShapeLegsGeometry: on each of two sides two
\* posts and one connector
createUShapeLegsGeometry(width, length, height, thickness) ==
    LET legBarThickness == Max(Times(PerMetre, 3, 100), Times(Min(width, length), 4, 100))
        legHeight       == height - thickness
        legInset        == Max(Times(PerMetre, 8, 100), Times(Min(width, length), 8, 100))
        zPos(side)      == side * (length \div 2 - legInset)
        post(name, sx, side) ==
            BoxMesh(name, "leg", Vector3(legBarThickness, legHeight, legBarThickness),
                    Vector3(sx * (width \div 2 - legInset), legHeight \div 2, zPos(side)),
                    "tableModelGroup")
        connector(name, side) ==
            BoxMesh(name, "leg",
                    Vector3(width - 2 * legInset + legBarThickness,
                            legBarThickness, legBarThickness),
                    Vector3(0, height - thickness - legBarThickness \div 2
                                 - Times(PerMetre, 5, 100), zPos(side)),
                    "tableModelGroup")
    IN  << post("ULeg1_side0", 1, -1), post("ULeg2_side0", -1, -1),
           connector("UConnector_side0", -1),
           post("ULeg1_side1", 1, 1), post("ULeg2_side1", -1, 1),
           connector("UConnector_side1", 1) >>

\* tableModel.js:235-268  createXShapeLegsGeometry: two frames of two bars;
\* the bars sit in a nested group, which traverse() descends into.  The
\* length of a bar is the diagonal of the frame, the root of a sum of
\* squares: the model keeps the two squares' roots, span and rise.
createXShapeLegsGeometry(width, length, height, thickness) ==
    LET legBarThickness == Max(Times(PerMetre, 4, 100), Times(Min(width, length), 5, 100))
        legHeight       == height - thickness
        legFrameInsetZ  == Max(Times(PerMetre, 10, 100), Times(length, 12, 100))
        xFrameTopSpan   == width - 2 * Times(legBarThickness, 25, 100)
        bar(name, frame) ==
            [name |-> name, material |-> "leg", geometry |-> "BoxGeometry",
             size |-> Vector3(legBarThickness, 0, legBarThickness),
             span |-> xFrameTopSpan, rise |-> legHeight,
             position |-> Vector3(0, 0, 0), parent |-> frame]
    IN  << bar("XBar1_frame0", "xFrameGroup0"), bar("XBar2_frame0", "xFrameGroup0"),
           bar("XBar1_frame1", "xFrameGroup1"), bar("XBar2_frame1", "xFrameGroup1") >>

\* tableModel.js:270-306  createLShapeTable: two slabs and six legs
createLShapeTable(width, length, height, thickness) ==
    LET mainArmWidth  == width
        mainArmLength == Times(length, 6, 10)
        sideArmWidth  == Times(width, 4, 10)
        sideArmLength == length
        legSize       == Max(Times(PerMetre, 4, 100), Times(Min(width, length), 5, 100))
        legHeight     == height - thickness
        inset         == Times(PerMetre, 1, 10)
        leg(name, x, z) ==
            BoxMesh(name, "leg", Vector3(legSize, legHeight, legSize),
                    Vector3(x, legHeight \div 2, z), "tableModelGroup")
    IN  << BoxMesh("MainArm", "top", Vector3(mainArmWidth, thickness, mainArmLength),
                   Vector3(0, height - thickness \div 2,
                           length \div 2 - mainArmLength \div 2),
                   "tableModelGroup"),
           BoxMesh("SideArm", "top", Vector3(sideArmWidth, thickness, sideArmLength),
                   Vector3(-(width \div 2) + sideArmWidth \div 2,
                           height - thickness \div 2, 0),
                   "tableModelGroup"),
           leg("LLeg_0", mainArmWidth \div 2 - inset, length \div 2 - inset),
           leg("LLeg_1", -(mainArmWidth \div 2) + inset, length \div 2 - inset),
           leg("LLeg_2", -(width \div 2) + inset, length \div 2 - inset),
           leg("LLeg_3", -(width \div 2) + inset, -(length \div 2) + inset),
           leg("LLeg_4", mainArmWidth \div 2 - inset,
                         length \div 2 - mainArmLength + inset),
           leg("LLeg_5", -(width \div 2) + sideArmWidth - inset,
                         -(length \div 2) + inset) >>

\* tableModel.js:197  const legHeight = height - thickness
legHeight(config) == config.height - config.thickness

\* createTableWithStyle without its branch for the leg style l-shape
createTableWithStyleNoLShape(width, length, height, thickness, edgeStyle, legStyle) ==
    << IF edgeStyle = "beveled"
       THEN createBeveledTableTopGeometry(width, length, height, thickness)
       ELSE IF edgeStyle = "rounded"
       THEN createRoundedTableTopGeometry(width, length, height, thickness)
       ELSE createStraightTableTop(width, length, height, thickness) >> \o
    ( IF legStyle = "u-shape"
      THEN createUShapeLegsGeometry(width, length, height, thickness)
      ELSE createStandardLegsGeometry(width, length, height, thickness) )

\* createTableWithStyle that builds legs for the four leg styles of the page
\* only
createTableWithStyleKnownLegsOnly(width, length, height, thickness, edgeStyle, legStyle) ==
    IF legStyle = "l-shape"
    THEN createLShapeTable(width, length, height, thickness)
    ELSE << IF edgeStyle = "beveled"
            THEN createBeveledTableTopGeometry(width, length, height, thickness)
            ELSE IF edgeStyle = "rounded"
            THEN createRoundedTableTopGeometry(width, length, height, thickness)
            ELSE createStraightTableTop(width, length, height, thickness) >> \o
         ( IF legStyle = "u-shape"
           THEN createUShapeLegsGeometry(width, length, height, thickness)
           ELSE IF legStyle = "x-shape"
           THEN createXShapeLegsGeometry(width, length, height, thickness)
           ELSE IF legStyle = "standard"
           THEN createStandardLegsGeometry(width, length, height, thickness)
           ELSE << >> )

\* tableModel.js:121-149  createTableWithStyle: the meshes added to the group
createTableWithStyle(width, length, height, thickness, edgeStyle, legStyle) ==
    IF legStyle = "l-shape"
    THEN createLShapeTable(width, length, height, thickness)
    ELSE << IF edgeStyle = "beveled"
            THEN createBeveledTableTopGeometry(width, length, height, thickness)
            ELSE IF edgeStyle = "rounded"
            THEN createRoundedTableTopGeometry(width, length, height, thickness)
            ELSE createStraightTableTop(width, length, height, thickness) >> \o
         ( IF legStyle = "u-shape"
           THEN createUShapeLegsGeometry(width, length, height, thickness)
           ELSE IF legStyle = "x-shape"
           THEN createXShapeLegsGeometry(width, length, height, thickness)
           ELSE createStandardLegsGeometry(width, length, height, thickness) )

\* tableModel.js:43-47 and 71  the meshes that createTable builds for config
BuiltMeshes(config) ==
    createTableWithStyle(ToMetres(config.width), ToMetres(config.length),
                         ToMetres(config.height), ToMetres(config.thickness),
                         config.edgeStyle, config.legStyle)

NoShadow == [created |-> FALSE, geomDisposed |-> FALSE, matDisposed |-> FALSE]

UsesMaterial(b, material) ==
    \E k \in 1..Len(b.parts) : b.parts[k].material = material

\* the traverse() without the disposal of the material's map
disposeMeshesKeepsMap(b) ==
    [b EXCEPT
        !.parts  = [k \in 1..Len(b.parts) |-> [b.parts[k] EXCEPT !.disposed = TRUE]],
        !.topMat = IF UsesMaterial(b, "top") THEN [@ EXCEPT !.disposed = TRUE] ELSE @,
        !.legMat = IF UsesMaterial(b, "leg") THEN [@ EXCEPT !.disposed = TRUE] ELSE @]

\* tableModel.js:93-108  the traverse() of disposeTableModel over one group:
\* every mesh has its geometry disposed, its material's map disposed when the
\* material has one, and its material disposed
disposeMeshes(b) ==
    [b EXCEPT
        !.parts  = [k \in 1..Len(b.parts) |-> [b.parts[k] EXCEPT !.disposed = TRUE]],
        !.tex    = IF UsesMaterial(b, "top") /\ b.topMat.map = "texture"
                   THEN [@ EXCEPT !.disposed = TRUE] ELSE @,
        !.topMat = IF UsesMaterial(b, "top") THEN [@ EXCEPT !.disposed = TRUE] ELSE @,
        !.legMat = IF UsesMaterial(b, "leg") THEN [@ EXCEPT !.disposed = TRUE] ELSE @]

\* tableModel.js:112-117 and 309-313  disposal of the tracked shadow plane
disposeShadow(m) ==
    IF m.shadowPlane # Null
    THEN [m EXCEPT !.builds[m.shadowPlane].shadow.geomDisposed = TRUE,
                   !.builds[m.shadowPlane].shadow.matDisposed = TRUE,
                   !.scene = @ \ {Obj("shadow", m.shadowPlane)},
                   !.shadowPlane = Null]
    ELSE m

\* dispose() acts on an object, not on a record: after the meshes of build g
\* have been disposed, every other build that holds a material or a texture
\* disposed with them holds a disposed one
SameObject(x, y) == x.created /\ y.created /\ x.handle = y.handle

disposeShared(bs, g) ==
    [j \in 1..Len(bs) |->
        IF j = g THEN bs[j]
        ELSE [bs[j] EXCEPT
                !.tex.disposed    = @ \/ (SameObject(bs[j].tex, bs[g].tex)
                                            /\ bs[g].tex.disposed),
                !.topMat.disposed = @ \/ (SameObject(bs[j].topMat, bs[g].topMat)
                                            /\ bs[g].topMat.disposed),
                !.legMat.disposed = @ \/ (SameObject(bs[j].legMat, bs[g].legMat)
                                            /\ bs[g].legMat.disposed)]]

\* disposeTableModel without scene.remove(tableModelGroup)
disposeTableModelKeepsGroup(m) ==
    LET m1 == IF m.tableModelGroup # Null
              THEN [m EXCEPT !.builds = disposeShared(
                                 [@ EXCEPT ![m.tableModelGroup] = disposeMeshes(@)],
                                 m.tableModelGroup),
                             !.tableModelGroup = Null]
              ELSE m
    IN  [disposeShadow(m1) EXCEPT !.isModelCurrentlyLoaded = FALSE]

\* disposeTableModel that empties the scene
disposeTableModelClearsScene(m) ==
    LET m1 == IF m.tableModelGroup # Null
              THEN [m EXCEPT !.builds = disposeShared(
                                 [@ EXCEPT ![m.tableModelGroup] = disposeMeshes(@)],
                                 m.tableModelGroup),
                             !.scene = {},
                             !.tableModelGroup = Null]
              ELSE m
    IN  [disposeShadow(m1) EXCEPT !.isModelCurrentlyLoaded = FALSE]

\* tableModel.js:91-119  disposeTableModel, on the module state m
disposeTableModel(m) ==
    LET m1 == IF m.tableModelGroup # Null
              THEN [m EXCEPT !.builds = disposeShared(
                                 [@ EXCEPT ![m.tableModelGroup] = disposeMeshes(@)],
                                 m.tableModelGroup),
                             !.scene = @ \ {Obj("group", m.tableModelGroup)},
                             !.tableModelGroup = Null]
              ELSE m
    IN  [disposeShadow(m1) EXCEPT !.isModelCurrentlyLoaded = FALSE]

\* tableModel.js:308-322  addShadowPlaneToScene for the build id
addShadowPlaneToScene(m, id) ==
    LET m1 == disposeShadow(m) IN
    [m1 EXCEPT !.builds[id].shadow =
                   [created |-> TRUE, geomDisposed |-> FALSE, matDisposed |-> FALSE],
               !.shadowPlane = id,
               !.scene = @ \cup {Obj("shadow", id)}]

\* the handles of build j that belong to an assembly: is any of them in use?
AssemblyAlive(m, j) ==
    LET b == m.builds[j] IN
    \/ Obj("group", j) \in m.scene
    \/ Obj("shadow", j) \in m.scene
    \/ \E k \in 1..Len(b.parts) : ~b.parts[k].disposed
    \/ UsesMaterial(b, "top") /\ ~b.topMat.disposed
    \/ UsesMaterial(b, "leg") /\ ~b.legMat.disposed
    \/ UsesMaterial(b, "top") /\ b.topMat.map = "texture" /\ ~b.tex.disposed
    \/ b.shadow.created /\ ~(b.shadow.geomDisposed /\ b.shadow.matDisposed)

\* tableModel.js:25-89  createTable, on the module state m.  The new build
\* gets the next id.  failure names the call of the try block
\* (tableModel.js:50-60) that throws: "top" is createMaterial, "leg" is
\* createMetalMaterial, and then the function returns null.  hist carries the
\* history fields of the build record.  The result is the new module state
\* and whether the function reached its setTimeout (tableModel.js:78).
createTable(m, config, failure, hist) ==
    LET id  == Len(m.builds) + 1
        m1  == disposeTableModel([m EXCEPT !.isModelCurrentlyLoaded = FALSE])
        top == IF failure = "top" THEN [mat |-> NoMaterial, tex |-> NoTexture]
               ELSE createMaterial(config.material, failure, id)
        leg == IF failure \in {"top", "leg"} THEN NoMaterial
               ELSE [createMetalMaterial EXCEPT !.handle = id]
        thrown == failure \in {"top", "leg"}
        meshes == BuiltMeshes(config)
        b   == [ config   |-> config,
                 parts    |-> IF thrown THEN << >>
                              ELSE [k \in 1..Len(meshes) |->
                                      Mesh(meshes[k].name, meshes[k].material)],
                 topMat   |-> top.mat,
                 legMat   |-> leg,
                 tex      |-> top.tex,
                 shadow   |-> NoShadow,
                 returned |-> IF thrown THEN "null" ELSE "group",
                 hist     |-> hist,
                 coexist  |-> {j \in 1..Len(m1.builds) : AssemblyAlive(m1, j)} ]
        m2  == [m1 EXCEPT !.builds = Append(@, b), !.tableModelGroup = id]
    IN  IF thrown
        THEN [m |-> m2, ok |-> FALSE]
        ELSE [m |-> addShadowPlaneToScene(
                        [m2 EXCEPT !.scene = @ \cup {Obj("group", id)}], id),
              ok |-> TRUE]

\* tableModel.js:324-333  updateModelHeader: the two labels of the header
updateModelHeader(currentMaterial, edgeStyle) ==
    [material |-> getMaterialProperties(currentMaterial).id, edge |-> edgeStyle]

----------------------------------------------------------------------------
(* dimensionLabels.js: the annotation overlay *)

\* the overlay state that the functions below work on: the two module
\* variables, the objects attached to the scene, and whether a TypeError has
\* been thrown
OverlayState ==
    [ dimensionGroup  |-> dimensionGroup,
      isLabelsVisible |-> isLabelsVisible,
      labelMeshes     |-> labelMeshes,
      lineMeshes      |-> lineMeshes,
      scene           |-> scene,
      thrown          |-> FALSE,
      serial          |-> nEvents + 1 ]

\* a reference to a mesh that is null
NoMesh == [absent |-> TRUE]

\* part_000:11  labelMeshes = { width: null, length: null, height: null }
NoLabels == [width |-> NoMesh, length |-> NoMesh, height |-> NoMesh]

\* part_000:12-16  lineMeshes with every reference null
NoLines ==
    [ width  |-> [main |-> NoMesh, leftEnd |-> NoMesh, rightEnd |-> NoMesh],
      length |-> [main |-> NoMesh, frontEnd |-> NoMesh, backEnd |-> NoMesh],
      height |-> [main |-> NoMesh, bottomEnd |-> NoMesh, topEnd |-> NoMesh] ]

\* the argument dimensions: {width, length, height} of appState a
DimensionsOf(a) ==
    [width |-> a.tableWidth, length |-> a.tableLength, height |-> a.tableHeight]

\* `${x} cm` of a template literal
LabelText(x) == [number |-> NumberText(x), unit |-> "cm"]

\* the rotation of a mesh that has never been turned: it stands at the
\* origin and faces along +z, as after lookAt((0, 0, 1))
NoRotation == [eye |-> Vector3(0, 0, 0), target |-> Vector3(0, 0, 1)]

\* part_000:177-221  createTextLabel(text, size): a canvas with the text
\* drawn on it, a CanvasTexture of the canvas, a material with that texture
\* as its map, and a plane of size * 5.0 by size * 1.2.  text is what the
\* canvas shows.  The constructor of CanvasTexture and the assignment
\* texture.needsUpdate = true each raise the version of the texture, which
\* is what makes the renderer upload it again.  The three objects get their
\* names (handle) from the caller.
createTextLabel(text, size) ==
    [text |-> text, plane |-> [x |-> Times(size, 5, 1), y |-> Times(size, 12, 10)],
     position |-> Vector3(0, 0, 0), rotation |-> NoRotation,
     canvas   |-> Null,
     texture  |-> [handle |-> Null, image |-> Null, version |-> 2, disposed |-> FALSE],
     material |-> [handle |-> Null, map |-> Null, disposed |-> FALSE]]

\* the label with its canvas, texture and material named as the objects
\* that the call number serial has allocated
Allocated(label, serial) ==
    [label EXCEPT !.canvas = serial,
                  !.texture.handle = serial, !.texture.image = serial,
                  !.material.handle = serial, !.material.map = serial]

\* a line: new THREE.Mesh(new THREE.BoxGeometry(size), lineMaterial) at position
LineMesh(size, position) == [size |-> size, position |-> position]

\* thousandths of a metre in the units of the scene
Mm(n) == Times(PerMetre, n, 1000)

\* part_000:54-88  createWidthDimension: the lines and the label
createWidthDimension(width, length, height, widthCm) ==
    LET offset        == Max(Mm(150), Times(width, 15, 100))
        lineHeight    == Max(Mm(10), Times(width, 2, 100))
        endLineLength == Max(Mm(30), Times(width, 8, 100))
        labelSize     == Max(Mm(80), Times(width, 8, 100))
        at(x)         == Vector3(x, height + Mm(10), -(length \div 2) - offset)
    IN  [ lines |-> [ main     |-> LineMesh(Vector3(width, lineHeight, Mm(5)), at(0)),
                      leftEnd  |-> LineMesh(Vector3(Mm(5), lineHeight, endLineLength),
                                            at(-(width \div 2))),
                      rightEnd |-> LineMesh(Vector3(Mm(5), lineHeight, endLineLength),
                                            at(width \div 2)) ],
          label |-> [createTextLabel(LabelText(widthCm), labelSize) EXCEPT
                        !.position = Vector3(0, height + Mm(80),
                                             -(length \div 2) - offset)] ]

\* part_000:93-127  createLengthDimension
createLengthDimension(width, length, height, lengthCm) ==
    LET offset        == Max(Mm(150), Times(length, 12, 100))
        lineHeight    == Max(Mm(10), Times(length, 15, 1000))
        endLineLength == Max(Mm(30), Times(length, 6, 100))
        labelSize     == Max(Mm(80), Times(length, 6, 100))
        at(z)         == Vector3(width \div 2 + offset, height + Mm(10), z)
    IN  [ lines |-> [ main     |-> LineMesh(Vector3(Mm(5), lineHeight, length), at(0)),
                      frontEnd |-> LineMesh(Vector3(endLineLength, lineHeight, Mm(5)),
                                            at(-(length \div 2))),
                      backEnd  |-> LineMesh(Vector3(endLineLength, lineHeight, Mm(5)),
                                            at(length \div 2)) ],
          label |-> [createTextLabel(LabelText(lengthCm), labelSize) EXCEPT
                        !.position = Vector3(width \div 2 + offset + Mm(80),
                                             height + Mm(80), 0)] ]

\* part_000:132-166  createHeightDimension
createHeightDimension(width, length, height, heightCm) ==
    LET offset        == Max(Mm(200), Times(Max(width, length), 15, 100))
        lineThickness == Max(Mm(10), Times(height, 2, 100))
        endLineLength == Max(Mm(30), Times(height, 8, 100))
        labelSize     == Max(Mm(80), Times(height, 12, 100))
        at(y)         == Vector3(-(width \div 2) - offset, y, -(length \div 2) - offset)
    IN  [ lines |-> [ main      |-> LineMesh(Vector3(Mm(5), height, lineThickness),
                                             at(height \div 2)),
                      bottomEnd |-> LineMesh(Vector3(endLineLength, Mm(5), lineThickness),
                                             at(0)),
                      topEnd    |-> LineMesh(Vector3(endLineLength, Mm(5), lineThickness),
                                             at(height)) ],
          label |-> [createTextLabel(LabelText(heightCm), labelSize) EXCEPT
                        !.position = Vector3(-(width \div 2) - offset - Mm(80),
                                             height \div 2,
                                             -(length \div 2) - offset)] ]

\* part_000:229-251  disposeDimensionLabels(scene).  sceneRef is the
\* argument, appState.scene: scene.remove throws when it is null, before the
\* group and the references are reset
disposeDimensionLabels(o, sceneRef) ==
    IF o.dimensionGroup = Null
    THEN o
    ELSE IF sceneRef = "null"
    THEN [o EXCEPT !.thrown = TRUE]
    ELSE [o EXCEPT !.scene = @ \ {Obj("overlay", o.dimensionGroup)},
                   !.dimensionGroup = Null,
                   !.labelMeshes = NoLabels,
                   !.lineMeshes = NoLines]

\* part_000:25-49  createDimensionLabels(scene, dimensions): the group is
\* made and filled before scene.add is reached
createDimensionLabels(o, sceneRef, dimensions) ==
    LET o1 == disposeDimensionLabels(o, sceneRef)
        width  == ToMetres(dimensions.width)
        length == ToMetres(dimensions.length)
        height == ToMetres(dimensions.height)
        w == createWidthDimension(width, length, height, dimensions.width)
        l == createLengthDimension(width, length, height, dimensions.length)
        h == createHeightDimension(width, length, height, dimensions.height)
    IN  IF o1.thrown \/ ~o1.isLabelsVisible
        THEN o1
        ELSE LET o2 == [o1 EXCEPT
                          !.dimensionGroup = 1,
                          !.labelMeshes = [width  |-> Allocated(w.label, o1.serial),
                                           length |-> Allocated(l.label, o1.serial),
                                           height |-> Allocated(h.label, o1.serial)],
                          !.lineMeshes = [width |-> w.lines, length |-> l.lines,
                                          height |-> h.lines]]
             IN  IF sceneRef = "null"
                 THEN [o2 EXCEPT !.thrown = TRUE]
                 ELSE [o2 EXCEPT !.scene = @ \cup {Obj("overlay", o2.dimensionGroup)}]

\* part_000:259-266  toggleDimensionLabels(visible, scene, dimensions); the
\* click listener passes dimensions when visible is true (main.js:866-870)
toggleDimensionLabels(o, visible, sceneRef, dimensions) ==
    LET o1 == [o EXCEPT !.isLabelsVisible = visible] IN
    IF visible
    THEN createDimensionLabels(o1, sceneRef, dimensions)
    ELSE disposeDimensionLabels(o1, sceneRef)

\* updateSingleLabel that makes a new canvas, texture and material for the
\* text and disposes the old ones
updateSingleLabelByReplacing(labelMesh, newText, serial) ==
    IF labelMesh = NoMesh
    THEN labelMesh
    ELSE [Allocated(createTextLabel(newText, 0), serial) EXCEPT
             !.plane = labelMesh.plane,
             !.position = labelMesh.position,
             !.rotation = labelMesh.rotation]

\* part_000:316-342  updateSingleLabel(labelMesh, newText): the canvas of
\* the map of the material is cleared and drawn again with newText, and the
\* texture is flagged with needsUpdate = true.  serial names the objects
\* that the call would allocate: it allocates none.
updateSingleLabel(labelMesh, newText, serial) ==
    IF labelMesh = NoMesh \/ labelMesh.material.map = Null
    THEN labelMesh
    ELSE [labelMesh EXCEPT !.text = newText,
                           !.texture.version = @ + 1]

\* updateLabelTexts that leaves the canvases as they are
updateLabelTextsNever(o, currentDimensions) == o

\* part_000:292-309  updateLabelTexts: the text of each label that exists
\* is drawn again; its plane stays
updateLabelTexts(o, currentDimensions) ==
    IF o.dimensionGroup = Null \/ ~o.isLabelsVisible
    THEN o
    ELSE [o EXCEPT !.labelMeshes =
            [d \in DOMAIN o.labelMeshes |->
                updateSingleLabel(o.labelMeshes[d],
                                  LabelText(currentDimensions[d]), o.serial)]]

\* part_000:348-376  updateLabelPositions
updateLabelPositions(o, dimensions) ==
    LET width  == ToMetres(dimensions.width)
        length == ToMetres(dimensions.length)
        height == ToMetres(dimensions.height)
        widthOffset  == Max(Mm(150), Times(width, 15, 100))
        lengthOffset == Max(Mm(150), Times(length, 12, 100))
        heightOffset == Max(Mm(200), Times(Max(width, length), 15, 100))
        position(d) ==
            CASE d = "width"  -> Vector3(0, height + Mm(80),
                                         -(length \div 2) - widthOffset)
              [] d = "length" -> Vector3(width \div 2 + lengthOffset + Mm(80),
                                         height + Mm(80), 0)
              [] d = "height" -> Vector3(-(width \div 2) - heightOffset - Mm(80),
                                         height \div 2,
                                         -(length \div 2) - heightOffset)
    IN  IF o.dimensionGroup = Null \/ ~o.isLabelsVisible
        THEN o
        ELSE [o EXCEPT !.labelMeshes =
                [d \in DOMAIN o.labelMeshes |->
                    IF o.labelMeshes[d] = NoMesh THEN NoMesh
                    ELSE [o.labelMeshes[d] EXCEPT !.position = position(d)]]]

\* part_000:382-455  updateLineGeometries: the lines of each dimension whose
\* main line exists get new geometries and positions
updateLineGeometries(o, dimensions) ==
    LET width  == ToMetres(dimensions.width)
        length == ToMetres(dimensions.length)
        height == ToMetres(dimensions.height)
        widthOffset  == Max(Mm(150), Times(width, 15, 100))
        lengthOffset == Max(Mm(150), Times(length, 12, 100))
        heightOffset == Max(Mm(200), Times(Max(width, length), 15, 100))
        widthLineHeight     == Max(Mm(10), Times(width, 2, 100))
        lengthLineHeight    == Max(Mm(10), Times(length, 15, 1000))
        heightLineThickness == Max(Mm(10), Times(height, 2, 100))
        widthEndLineLength  == Max(Mm(30), Times(width, 8, 100))
        lengthEndLineLength == Max(Mm(30), Times(length, 6, 100))
        heightEndLineLength == Max(Mm(30), Times(height, 8, 100))
        wAt(x) == Vector3(x, height + Mm(10), -(length \div 2) - widthOffset)
        lAt(z) == Vector3(width \div 2 + lengthOffset, height + Mm(10), z)
        hAt(y) == Vector3(-(width \div 2) - heightOffset, y,
                          -(length \div 2) - heightOffset)
        lines(d) ==
            CASE d = "width" ->
                   [ main     |-> LineMesh(Vector3(width, widthLineHeight, Mm(5)), wAt(0)),
                     leftEnd  |-> LineMesh(Vector3(Mm(5), widthLineHeight,
                                                   widthEndLineLength),
                                           wAt(-(width \div 2))),
                     rightEnd |-> LineMesh(Vector3(Mm(5), widthLineHeight,
                                                   widthEndLineLength),
                                           wAt(width \div 2)) ]
              [] d = "length" ->
                   [ main     |-> LineMesh(Vector3(Mm(5), lengthLineHeight, length), lAt(0)),
                     frontEnd |-> LineMesh(Vector3(lengthEndLineLength, lengthLineHeight,
                                                   Mm(5)),
                                           lAt(-(length \div 2))),
                     backEnd  |-> LineMesh(Vector3(lengthEndLineLength, lengthLineHeight,
                                                   Mm(5)),
                                           lAt(length \div 2)) ]
              [] d = "height" ->
                   [ main      |-> LineMesh(Vector3(Mm(5), height, heightLineThickness),
                                            hAt(height \div 2)),
                     bottomEnd |-> LineMesh(Vector3(heightEndLineLength, Mm(5),
                                                    heightLineThickness),
                                            hAt(0)),
                     topEnd    |-> LineMesh(Vector3(heightEndLineLength, Mm(5),
                                                    heightLineThickness),
                                            hAt(height)) ]
    IN  IF o.dimensionGroup = Null \/ ~o.isLabelsVisible
        THEN o
        ELSE [o EXCEPT !.lineMeshes =
                [d \in DOMAIN o.lineMeshes |->
                    IF o.lineMeshes[d].main = NoMesh THEN o.lineMeshes[d]
                    ELSE lines(d)]]

\* part_000:273-287  updateDimensionLabels(scene, dimensions).  The module
\* variable currentDimensions is written here and read by updateLabelTexts
\* only, inside the same call.
updateDimensionLabels(o, sceneRef, dimensions) ==
    IF o.isLabelsVisible
    THEN updateLineGeometries(
             updateLabelPositions(updateLabelTexts(o, dimensions), dimensions),
             dimensions)
    ELSE o

\* main.js:364-376  the end of updateTableModel, reached with or without a
\* scene: updateDimensionLabels with the dimensions of appState a, if the
\* page has loaded dimensionLabels.js
updateTableModelLabels(o, a) ==
    IF limits.labels
    THEN updateDimensionLabels(o, a.scene, DimensionsOf(a))
    ELSE o

\* the places the orbit controls and the automatic rotation take the camera
\* to; main.js:213 sets the first
CameraPositions == {Vector3(300000, 280000, 300000), Vector3(-300000, 280000, 300000)}

\* object.lookAt(target) of an object at position: the rotation that turns
\* the object at position towards target
LookAt(position, target) == [eye |-> position, target |-> target]

\* updateLabelOrientations that places the labels anew before it turns them
updateLabelOrientationsMoving(o, camera) ==
    IF o.dimensionGroup = Null \/ ~o.isLabelsVisible
    THEN o
    ELSE [o EXCEPT !.labelMeshes =
            [d \in DOMAIN o.labelMeshes |->
                IF o.labelMeshes[d] = NoMesh THEN NoMesh
                ELSE [o.labelMeshes[d] EXCEPT
                         !.position = camera,
                         !.rotation = LookAt(camera, camera)]]]

\* part_000:461-483  updateLabelOrientations(camera): every object of the
\* group with userData.isLabel, the three labels, is turned to the camera
updateLabelOrientations(o, camera) ==
    IF o.dimensionGroup = Null \/ ~o.isLabelsVisible
    THEN o
    ELSE [o EXCEPT !.labelMeshes =
            [d \in DOMAIN o.labelMeshes |->
                IF o.labelMeshes[d] = NoMesh THEN NoMesh
                ELSE [o.labelMeshes[d] EXCEPT
                         !.rotation = LookAt(o.labelMeshes[d].position, camera)]]]

\* the label and line references of the overlay become those of o
SetOverlayMeshes(o) ==
    /\ labelMeshes' = o.labelMeshes
    /\ lineMeshes' = o.lineMeshes

----------------------------------------------------------------------------
(* utils.js: pricing *)

\* utils.js (part_000:907)  var basePrice = 1500
BasePrice == 1500
\* utils.js (part_000:913)  basePrice += 300 for ebony
EbonyPremium == 300
\* utils.js (part_000:915)  basePrice += 200 for mahogany
MahoganyPremium == 200
\* main.js:614  the delay of debouncedPricingUpdate
PricingDelay == 300
\* main.js:945  the delay of the updateDimensionLabels of the page load
LabelsDelay == 2000
\* main.js:166  the delay of the updateDimensionLabels of a restore
RestoreLabelsDelay == 200

\* utils.js (part_000:928)  var standardArea = 109 * 150, in hundredths of
\* a square centimetre: the dimensions count in tenths of a centimetre
standardArea == 1090 * 1500

\* utils.js (part_000:932)  the factor 0.1 of the surcharge
SurchargeRate == [num |-> 1, den |-> 10]

\* Math.round of the fraction num / den: the nearest integer, a half goes up
Round(num, den) == (2 * num + den) \div (2 * den)

\* the surcharge of an area, floored instead of rounded and without the
\* comparison with the standard area
areaSurchargeUnguarded(tableWidth, tableLength) ==
    ((tableWidth * tableLength - standardArea) * SurchargeRate.num)
        \div (100 * SurchargeRate.den)

\* utils.js (part_000:920-934)  what updatePricing adds to basePrice for the
\* area tableWidth * tableLength
areaSurcharge(tableWidth, tableLength) ==
    LET area == tableWidth * tableLength IN
    IF area > standardArea
    THEN Round((area - standardArea) * SurchargeRate.num, 100 * SurchargeRate.den)
    ELSE 0

\* calculateAreaSurcharge(area, standardArea, rate) of js/modules/utils.js
\* as utils.test.js calls it: areas in square centimetres, rate a fraction
calculateAreaSurcharge(area, standard, rate) ==
    IF area > standard
    THEN Round((area - standard) * rate.num, rate.den)
    ELSE 0

\* utils.js (part_000:909-918)  the premium of the selected material
materialPremium(material) ==
    IF material = "ebene" THEN EbonyPremium
    ELSE IF material = "mogano" THEN MahoganyPremium
    ELSE 0

\* a page without the elements of .pricing-summary: updatePricing finds
\* nothing to write to (part_000:949-951)
NoSummary == [absent |-> TRUE]

\* utils.js (part_000:905-952)  updatePricing: the base price written to the
\* pricing summary, with the values of the inputs it was computed from.  No
\* feature is checked.  The inputs of the page show the dimensions of a.
updatePricing(display, a) ==
    IF display = NoSummary
    THEN NoSummary
    ELSE [basePrice |-> BasePrice + materialPremium(a.currentMaterial)
                          + areaSurcharge(a.tableWidth, a.tableLength),
          tableWidth  |-> a.tableWidth,
          tableLength |-> a.tableLength,
          material    |-> a.currentMaterial]

----------------------------------------------------------------------------
(* Timers: setTimeout and the event loop *)

\* a pending callback.  kind names the callback; at is its deadline;
\* ctl, cfg and hist are what its closure holds
Timer(kind, at, ctl, cfg, hist) ==
    [kind |-> kind, at |-> at, ctl |-> ctl, cfg |-> cfg, hist |-> hist]

\* history of a rebuild: the path that called updateTableModel, the control
\* of that path, appState's configuration when the path was scheduled, and
\* (filled in by updateTableModel) appState's configuration when
\* updateTableModel was called
Hist(path, ctl, schedCfg) ==
    [path |-> path, ctl |-> ctl, schedCfg |-> schedCfg, callCfg |-> NoConfig]

RemoveAt(ts, i) == [k \in 1..(Len(ts) - 1) |-> IF k < i THEN ts[k] ELSE ts[k + 1]]

\* the callback the event loop runs next: of the expired timers the one with
\* the earliest deadline, the earliest registered among equal deadlines
IsNext(ts, i) ==
    /\ i \in 1..Len(ts)
    /\ ts[i].at <= now
    /\ \A j \in 1..Len(ts) :
          j # i => \/ ts[j].at > ts[i].at
                   \/ ts[j].at = ts[i].at /\ j > i

ModState ==
    [ tableModelGroup        |-> tableModelGroup,
      shadowPlane            |-> shadowPlane,
      isModelCurrentlyLoaded |-> isModelCurrentlyLoaded,
      scene                  |-> scene,
      builds                 |-> builds ]

SetModState(m) ==
    /\ tableModelGroup' = m.tableModelGroup
    /\ shadowPlane' = m.shadowPlane
    /\ isModelCurrentlyLoaded' = m.isModelCurrentlyLoaded
    /\ scene' = m.scene
    /\ builds' = m.builds

----------------------------------------------------------------------------
(* main.js and utils.js *)

\* main.js:313-357  updateTableModel, called with appState a, module state m
\* and pending timers ts: the snapshot is taken, the old model is disposed
\* and createTable is deferred by CreateDelay.  The result is the new module
\* state and the new timers.
updateTableModel(a, m, ts, hist) ==
    IF a.scene # "null"
    THEN [ m  |-> disposeTableModel(m),
           ts |-> Append(ts, Timer("createTable", now + CreateDelay, NoControl,
                                   ConfigOf(a),
                                   [hist EXCEPT !.callCfg = ConfigOf(a)])) ]
    ELSE [m |-> m, ts |-> ts]

\* a throttle that never enters its period: every call runs
throttledModelUpdateAlways(c, a, m, ts, flag) ==
    LET u == updateTableModel(a, m, ts, Hist("throttle", c, ConfigOf(a))) IN
    [ m |-> u.m, ts |-> u.ts, flag |-> FALSE ]

\* utils.js:886-899  throttle, the closure of control c wrapping
\* updateTableModel (main.js:602-604): a call inside the throttle period is
\* dropped.  The result is the new module state, timers and flag.
throttledModelUpdate(c, a, m, ts, flag) ==
    IF ~flag
    THEN LET u == updateTableModel(a, m, ts, Hist("throttle", c, ConfigOf(a))) IN
         [ m |-> u.m,
           ts |-> Append(u.ts, Timer("throttleReset", now + ThrottleLimit, c,
                                     NoConfig, Hist("throttle", c, NoConfig))),
           flag |-> TRUE ]
    ELSE [m |-> m, ts |-> ts, flag |-> flag]

DebouncePending(ts, c) ==
    \E k \in 1..Len(ts) : ts[k].kind = "debounce" /\ ts[k].ctl = c

\* main.js:607-609  debounce, the closure of control c wrapping
\* updateTableModel: every call cancels the pending call of the closure and
\* schedules a new one DebounceDelay later
debouncedModelUpdate(c, a, ts) ==
    LET kept == SelectSeq(ts, LAMBDA t : ~(t.kind = "debounce" /\ t.ctl = c)) IN
    Append(kept, Timer("debounce", now + DebounceDelay, c, NoConfig,
                       Hist("debounce", c, ConfigOf(a))))

\* main.js:612-614  debounce, the closure of control c wrapping
\* updatePricing.  On a page without a pricing summary the callback changes
\* nothing and is left out of the timers.
debouncedPricingUpdate(c, ts) ==
    IF priceDisplay = NoSummary
    THEN ts
    ELSE LET kept == SelectSeq(ts, LAMBDA t : ~(t.kind = "pricing" /\ t.ctl = c)) IN
         Append(kept, Timer("pricing", now + PricingDelay, c, NoConfig,
                            Hist("pricing", c, NoConfig)))

\* the range check that accepts every value
IsValidDimensionAlways(dim, value) == TRUE

\* the range check with open ranges: the ends are rejected
IsValidDimensionStrict(dim, value) ==
    ~(value <= DimRange(dim).min \/ value >= DimRange(dim).max)

\* main.js:641-666  the range check of handleDimensionUpdate
IsValidDimension(dim, value) ==
    ~(JsLess(value, DimRange(dim).min) \/ JsLess(DimRange(dim).max, value))

\* the handler without the assignment to appState
SetDimensionKeeps(a, dim, value) == a

\* main.js:700-706  appState with one dimension set
SetDimension(a, dim, value) ==
    CASE dim = "width"     -> [a EXCEPT !.tableWidth = value]
      [] dim = "length"    -> [a EXCEPT !.tableLength = value]
      [] dim = "height"    -> [a EXCEPT !.tableHeight = value]
      [] dim = "thickness" -> [a EXCEPT !.tableThickness = value]

DimensionOf(a, dim) ==
    CASE dim = "width"     -> a.tableWidth
      [] dim = "length"    -> a.tableLength
      [] dim = "height"    -> a.tableHeight
      [] dim = "thickness" -> a.tableThickness

\* main.js:621-625 and 668-677  the handler returns early: error is the
\* field whose message is shown, or "kept" when the messages stay as they
\* were (the value is no number)
RejectInput(c, value, error) ==
    /\ nEvents' = nEvents + 1
    /\ lastEvent' = "rejected"
    /\ lastInput' = [ctl |-> c, value |-> value, accepted |-> FALSE, error |-> error]
    /\ UNCHANGED <<appState, timers, inThrottle, tableModelGroup, shadowPlane,
                   isModelCurrentlyLoaded, scene, builds, header, edits,
                   nFailures, now, nTicks, limits, priceDisplay,
                   overlayVars, console>>

\* the handler without its call of debouncedModelUpdate
handleDimensionUpdateLiveOnly(c, value) ==
    IF isNaN(value)
    THEN RejectInput(c, value, "kept")
    ELSE IF ~IsValidDimension(c.dim, value)
    THEN RejectInput(c, value, c.dim)
    ELSE LET a  == SetDimension(appState, c.dim, value)
             th == throttledModelUpdate(c, a, ModState, timers, inThrottle[c])
         IN  /\ appState' = a
             /\ SetModState(th.m)
             /\ inThrottle' = [inThrottle EXCEPT ![c] = th.flag]
             /\ timers' = debouncedPricingUpdate(c, th.ts)
             /\ edits' = Append(edits, [ctl |-> c, value |-> value, at |-> now,
                                        reset |-> DebouncePending(timers, c),
                                        live |-> ~inThrottle[c]])
             /\ nEvents' = nEvents + 1
             /\ lastEvent' = "dimension"
             /\ lastInput' = [ctl |-> c, value |-> value, accepted |-> TRUE,
                              error |-> "none"]
             /\ LET o == IF limits.labels
                         THEN updateDimensionLabels(OverlayState, a.scene,
                                                    DimensionsOf(a))
                         ELSE OverlayState
                IN  \* the call of updateTableModel, if the throttle lets it
                    \* run, updates the labels once more
                    SetOverlayMeshes(IF inThrottle[c] THEN o
                                     ELSE updateTableModelLabels(o, a))
             /\ UNCHANGED <<header, nFailures, now, nTicks, limits, priceDisplay,
                            dimensionGroup, isLabelsVisible, dimensionsBtn, console>>

\* main.js:617-727  handleDimensionUpdate for an 'input' event of control c
\* carrying value
handleDimensionUpdate(c, value) ==
    IF isNaN(value)
    THEN RejectInput(c, value, "kept")
    ELSE IF ~IsValidDimension(c.dim, value)
    THEN RejectInput(c, value, c.dim)
    ELSE LET a  == SetDimension(appState, c.dim, value)
             th == throttledModelUpdate(c, a, ModState, timers, inThrottle[c])
         IN  /\ appState' = a
             /\ SetModState(th.m)
             /\ inThrottle' = [inThrottle EXCEPT ![c] = th.flag]
             /\ timers' = debouncedPricingUpdate(c, debouncedModelUpdate(c, a, th.ts))
             /\ edits' = Append(edits, [ctl |-> c, value |-> value, at |-> now,
                                        reset |-> DebouncePending(timers, c),
                                        live |-> ~inThrottle[c]])
             /\ nEvents' = nEvents + 1
             /\ lastEvent' = "dimension"
             /\ lastInput' = [ctl |-> c, value |-> value, accepted |-> TRUE,
                              error |-> "none"]
             /\ LET o == IF limits.labels
                         THEN updateDimensionLabels(OverlayState, a.scene,
                                                    DimensionsOf(a))
                         ELSE OverlayState
                IN  \* the call of updateTableModel, if the throttle lets it
                    \* run, updates the labels once more
                    SetOverlayMeshes(IF inThrottle[c] THEN o
                                     ELSE updateTableModelLabels(o, a))
             /\ UNCHANGED <<header, nFailures, now, nTicks, limits, priceDisplay,
                            dimensionGroup, isLabelsVisible, dimensionsBtn, console>>

\* the values a run gives to control c
Inputs(c) ==
    InputValues(c.dim) \cup (IF limits.probes THEN ProbeValues(c.dim) ELSE {})

\* main.js:729-731 and 744-746  the 'input' event of a control: a slider is
\* dragged or a number is typed
DimensionInput ==
    /\ nEvents < limits.events
    /\ \E c \in limits.controls : \E value \in Inputs(c) :
          /\ handleDimensionUpdate(c, value)
          /\ UNCHANGED localStorage

\* main.js:732-735 and 747-755  the 'change' and 'blur' events of a control:
\* the handler, then saveStateToLocalStorage
DimensionChange ==
    /\ nEvents < limits.events
    /\ \E c \in limits.controls : \E value \in Inputs(c) :
          /\ handleDimensionUpdate(c, value)
          /\ localStorage' = saveStateToLocalStorage(appState')

\* main.js:763-783  click on a style option
StyleClick ==
    /\ nEvents < limits.events
    /\ \E option \in StyleOptions :
         LET a == IF option.attr = "edge"
                  THEN [appState EXCEPT !.edgeStyle = option.value]
                  ELSE [appState EXCEPT !.legStyle = option.value]
             u == updateTableModel(a, ModState, timers, Hist("direct", NoControl, ConfigOf(a)))
         IN  /\ appState' = a
             /\ SetModState(u.m)
             /\ timers' = u.ts
             /\ nEvents' = nEvents + 1
             /\ lastEvent' = "style"
             /\ priceDisplay' = updatePricing(priceDisplay, a)
             /\ localStorage' = saveStateToLocalStorage(a)
             /\ SetOverlayMeshes(updateTableModelLabels(OverlayState, a))
             /\ UNCHANGED <<inThrottle, header, edits, nFailures, now, nTicks, limits,
                            dimensionGroup, isLabelsVisible, dimensionsBtn,
                            console, lastInput>>

\* main.js:522-597  click on an entry of the material grid
MaterialClick ==
    /\ nEvents < limits.events
    /\ \E materialIdentifier \in MaterialOptions :
         LET a == [appState EXCEPT
                      !.currentMaterial = materialIdentifier,
                      !.currentMaterialInfo = materialIdentifier,
                      !.currentMaterialName = MaterialDisplayName(materialIdentifier),
                      !.currentColor = materialColor(materialIdentifier),
                      !.currentColorName = MaterialDisplayName(materialIdentifier)]
             u == updateTableModel(a, ModState, timers, Hist("direct", NoControl, ConfigOf(a)))
         IN  /\ appState' = a
             /\ SetModState(u.m)
             /\ timers' = u.ts
             /\ nEvents' = nEvents + 1
             /\ lastEvent' = "material"
             /\ priceDisplay' = updatePricing(priceDisplay, a)
             /\ localStorage' = saveStateToLocalStorage(a)
             /\ SetOverlayMeshes(updateTableModelLabels(OverlayState, a))
             /\ UNCHANGED <<inThrottle, header, edits, nFailures, now, nTicks, limits,
                            dimensionGroup, isLabelsVisible, dimensionsBtn,
                            console, lastInput>>

\* main.js:480-519  click on an entry of the colour bar
ColorClick ==
    /\ nEvents < limits.events
    /\ \E clickedItem \in ColorOptions :
         LET a == [appState EXCEPT !.currentColor = clickedItem.color,
                                   !.currentColorName = clickedItem.name]
             u == updateTableModel(a, ModState, timers, Hist("color", NoControl, ConfigOf(a)))
         IN  /\ appState' = a
             /\ SetModState(u.m)
             /\ timers' = u.ts
             /\ nEvents' = nEvents + 1
             /\ lastEvent' = "color"
             /\ priceDisplay' = updatePricing(priceDisplay, a)
             /\ localStorage' = saveStateToLocalStorage(a)
             /\ SetOverlayMeshes(updateTableModelLabels(OverlayState, a))
             /\ UNCHANGED <<inThrottle, header, edits, nFailures, now, nTicks, limits,
                            dimensionGroup, isLabelsVisible, dimensionsBtn,
                            console, lastInput>>

\* main.js:850-880  click on the annotation button.  Nothing catches what
\* toggleDimensionLabels throws: the error reaches the console.  limits.labels
\* is window.DimensionLabelsModule: whether the page loads dimensionLabels.js
ToggleDimensions ==
    /\ nEvents < limits.events
    /\ LET o == IF limits.labels
                THEN toggleDimensionLabels(OverlayState, ~dimensionsBtn, appState.scene,
                                           DimensionsOf(appState))
                ELSE OverlayState
       IN  /\ dimensionsBtn' = ~dimensionsBtn
           /\ dimensionGroup' = o.dimensionGroup
           /\ isLabelsVisible' = o.isLabelsVisible
           /\ labelMeshes' = o.labelMeshes
           /\ lineMeshes' = o.lineMeshes
           /\ scene' = o.scene
           /\ console' = IF o.thrown THEN [console EXCEPT !.uncaught = @ + 1]
                         ELSE console
    /\ nEvents' = nEvents + 1
    /\ lastEvent' = "dimensions"
    /\ UNCHANGED <<appState, now, timers, inThrottle, tableModelGroup, shadowPlane,
                   isModelCurrentlyLoaded, builds, header, edits, nFailures,
                   nTicks, limits, priceDisplay, localStorage, lastInput>>

\* the debounce timer of a control expires: main.js:607-609 runs updateTableModel
FireDebounce ==
    \E i \in 1..Len(timers) :
        /\ timers[i].kind = "debounce"
        /\ IsNext(timers, i)
        /\ LET u == updateTableModel(appState, ModState, RemoveAt(timers, i),
                                     timers[i].hist)
           IN  /\ SetModState(u.m)
               /\ timers' = u.ts
        /\ SetOverlayMeshes(updateTableModelLabels(OverlayState, appState))
        /\ UNCHANGED <<appState, inThrottle, header, edits, nEvents, lastEvent,
                       nFailures, now, nTicks, limits, priceDisplay,
                       localStorage, dimensionGroup, isLabelsVisible, dimensionsBtn,
                       console, lastInput>>

\* the pricing timer of a control expires: main.js:612-614 runs updatePricing
FirePricing ==
    \E i \in 1..Len(timers) :
        /\ timers[i].kind = "pricing"
        /\ IsNext(timers, i)
        /\ priceDisplay' = updatePricing(priceDisplay, appState)
        /\ timers' = RemoveAt(timers, i)
        /\ UNCHANGED <<appState, inThrottle, tableModelGroup, shadowPlane,
                       isModelCurrentlyLoaded, scene, builds, header, edits,
                       nEvents, lastEvent, nFailures, now, nTicks, limits,
                       localStorage, overlayVars, console, lastInput>>

\* main.js:932-945 and 156-166  the deferred updateDimensionLabels of the
\* page load runs
FireLabels ==
    \E i \in 1..Len(timers) :
        /\ timers[i].kind = "labels"
        /\ IsNext(timers, i)
        /\ LET o == updateDimensionLabels(OverlayState, appState.scene,
                                          DimensionsOf(appState))
           IN  /\ labelMeshes' = o.labelMeshes
               /\ lineMeshes' = o.lineMeshes
        /\ timers' = RemoveAt(timers, i)
        /\ UNCHANGED <<appState, inThrottle, tableModelGroup, shadowPlane,
                       isModelCurrentlyLoaded, scene, builds, header, edits,
                       nEvents, lastEvent, nFailures, now, nTicks, limits,
                       priceDisplay, localStorage, dimensionGroup,
                       isLabelsVisible, dimensionsBtn, console, lastInput>>

\* main.js:447-471  animate: one frame.  The controls have moved the camera
\* to some place; with a camera, which a browser without WebGL does not get,
\* the labels are turned to it.  What the renderer draws is no state.
Animate ==
    /\ limits.labels
    /\ appState.scene # "null"
    /\ \E camera \in CameraPositions :
          LET o == updateLabelOrientations(OverlayState, camera) IN
          /\ dimensionGroup' = o.dimensionGroup
          /\ isLabelsVisible' = o.isLabelsVisible
          /\ scene' = o.scene
          /\ SetOverlayMeshes(o)
    /\ UNCHANGED <<appState, now, timers, inThrottle, tableModelGroup, shadowPlane,
                   isModelCurrentlyLoaded, builds, header, edits, nEvents,
                   lastEvent, nFailures, nTicks, limits, priceDisplay,
                   localStorage, dimensionsBtn, console, lastInput>>

\* utils.js:894-896  the throttle period of a control ends
FireThrottleReset ==
    \E i \in 1..Len(timers) :
        /\ timers[i].kind = "throttleReset"
        /\ IsNext(timers, i)
        /\ inThrottle' = [inThrottle EXCEPT ![timers[i].ctl] = FALSE]
        /\ timers' = RemoveAt(timers, i)
        /\ UNCHANGED <<appState, tableModelGroup, shadowPlane, isModelCurrentlyLoaded,
                       scene, builds, header, edits, nEvents, lastEvent,
                       nFailures, now, nTicks, limits, priceDisplay,
                   localStorage, overlayVars, console, lastInput>>

\* main.js:341  the argument of createTable in the deferred callback t, run
\* when appState is a: the variable config of the closure
DeferredConfigLive(t, a) == ConfigOf(a)

DeferredConfig(t, a) == t.cfg

\* what can go wrong inside one createTable run
Failures == IF nFailures < limits.failures THEN {"none", "load", "top", "leg"} ELSE {"none"}

\* main.js:340-348  the deferred step of updateTableModel: createTable with
\* the snapshot, then updateModelHeader with the current appState
FireCreateTable ==
    \E i \in 1..Len(timers) :
        /\ timers[i].kind = "createTable"
        /\ IsNext(timers, i)
        /\ \E failure \in Failures :
             LET hist == [path     |-> timers[i].hist.path,
                          ctl      |-> timers[i].hist.ctl,
                          schedCfg |-> timers[i].hist.schedCfg,
                          callCfg  |-> timers[i].hist.callCfg,
                          appCfg   |-> ConfigOf(appState)]
                 r    == createTable(ModState, DeferredConfig(timers[i], appState),
                                     failure, hist)
                 rest == RemoveAt(timers, i)
             IN  /\ SetModState(r.m)
                 /\ timers' = IF r.ok
                               THEN Append(rest, Timer("loaded", now + LoadedDelay,
                                                       NoControl, NoConfig,
                                                       timers[i].hist))
                               ELSE rest
                 /\ nFailures' = IF failure = "none" THEN nFailures ELSE nFailures + 1
                 /\ console' =
                      [console EXCEPT !.fallback =
                          @ + (IF failure = "top" THEN 0
                               ELSE FallbackWarnings(DeferredConfig(timers[i], appState).material))
                            + FallbackWarnings(appState.currentMaterial)]
        /\ header' = updateModelHeader(appState.currentMaterial, appState.edgeStyle)
        /\ UNCHANGED <<appState, inThrottle, edits, nEvents, lastEvent, now, nTicks, limits, priceDisplay,
                       localStorage, overlayVars, lastInput>>

\* tableModel.js:78-86  the timer set by createTable raises the ready flag
FireLoaded ==
    \E i \in 1..Len(timers) :
        /\ timers[i].kind = "loaded"
        /\ IsNext(timers, i)
        /\ isModelCurrentlyLoaded' = TRUE
        /\ timers' = RemoveAt(timers, i)
        /\ UNCHANGED <<appState, inThrottle, tableModelGroup, shadowPlane, scene,
                       builds, header, edits, nEvents, lastEvent, nFailures, now, nTicks, limits, priceDisplay,
                   localStorage, overlayVars, console, lastInput>>

NumLoaded == Cardinality({i \in 1..Len(builds) : builds[i].tex.status = "loaded"})

\* materials.js:74-93  a texture arrives
TextureLoaded ==
    \E i \in 1..Len(builds) :
        /\ builds[i].tex.status = "loading"
        /\ NumLoaded < MaxTexLoads
        /\ builds' = [builds EXCEPT ![i] = onTextureLoad(@)]
        /\ UNCHANGED <<appState, now, timers, inThrottle, tableModelGroup, shadowPlane,
                       isModelCurrentlyLoaded, scene, header, edits, nEvents,
                       lastEvent, nFailures, nTicks, limits, priceDisplay,
                   localStorage, overlayVars, console, lastInput>>

\* materials.js:95-104  a texture fails to load
TextureError ==
    \E i \in 1..Len(builds) :
        /\ builds[i].tex.status = "loading"
        /\ nFailures < limits.failures
        /\ builds' = [builds EXCEPT ![i] = onTextureError(@)]
        /\ console' = [console EXCEPT !.error = @ + TextureErrorLogs]
        /\ nFailures' = nFailures + 1
        /\ UNCHANGED <<appState, now, timers, inThrottle, tableModelGroup, shadowPlane,
                       isModelCurrentlyLoaded, scene, header, edits, nEvents,
                       lastEvent, nTicks, limits, priceDisplay,
                       localStorage, overlayVars, lastInput>>

\* the deadline of the timer that expires first
NextDeadline(ts) ==
    CHOOSE t \in {ts[k].at : k \in 1..Len(ts)} : \A k \in 1..Len(ts) : t <= ts[k].at

\* the clock advances when no expired timer is waiting: by one step of the
\* grid, or through a period without input to the next deadline
Tick ==
    /\ \A i \in 1..Len(timers) : timers[i].at > now
    /\ nTicks < limits.steps
    /\ \E t \in {now + Grid} \cup (IF timers = << >> THEN {} ELSE {NextDeadline(timers)}) :
          now' = t
    /\ nTicks' = nTicks + 1
    /\ UNCHANGED <<appState, timers, inThrottle, tableModelGroup, shadowPlane,
                   isModelCurrentlyLoaded, scene, builds, header, edits, nEvents,
                   lastEvent, nFailures, limits, priceDisplay,
                   localStorage, overlayVars, console, lastInput>>

\* the module state of tableModel.js when the page has loaded
NoModel ==
    [tableModelGroup |-> Null, shadowPlane |-> Null,
     isModelCurrentlyLoaded |-> FALSE, scene |-> {}, builds |-> << >>]

NoInput ==
    [ctl |-> NoControl, value |-> 0, accepted |-> FALSE, error |-> "none"]

NoMessages == [fallback |-> 0, error |-> 0, uncaught |-> 0]

\* main.js:887-946  the DOMContentLoaded handler.  initThreeJS
\* (main.js:180-250) returns before it creates the scene when WebGL is
\* missing, and otherwise creates it and calls updateTableModel;
\* loadStateFromLocalStorage (main.js:68-173) returns when there is no item,
\* and otherwise copies it into appState and calls updateTableModel.  The
\* result is appState and the pending timers when the handler returns.
Boot(webGLSupported, item) ==
    LET a0 == [InitialAppState EXCEPT
                  !.scene = IF webGLSupported THEN "Scene" ELSE "null"]
        u1 == IF webGLSupported
              THEN updateTableModel(a0, NoModel, << >>,
                                    Hist("init", NoControl, ConfigOf(a0)))
              ELSE [m |-> NoModel, ts |-> << >>]
        a1 == IF item = NoItem THEN a0 ELSE loadStateFromLocalStorage(a0, item)
        u2 == IF item = NoItem THEN u1
              ELSE updateTableModel(a1, u1.m, u1.ts,
                                    Hist("restore", NoControl, ConfigOf(a1)))
    IN  [appState |-> a1, timers |-> u2.ts]

\* main.js:156-166 and 932-945  the deferred updateDimensionLabels calls of
\* a page that loads dimensionLabels.js: one by loadStateFromLocalStorage
\* when it finds an item, one by the DOMContentLoaded handler.  Their
\* callbacks do nothing unless the scene and the camera exist.
LabelTimers(webGLSupported, item) ==
    IF ~webGLSupported
    THEN << >>
    ELSE (IF item = NoItem THEN << >>
          ELSE << Timer("labels", now + RestoreLabelsDelay, NoControl, NoConfig,
                        Hist("restore", NoControl, NoConfig)) >>)
         \o << Timer("labels", now + LabelsDelay, NoControl, NoConfig,
                     Hist("init", NoControl, NoConfig)) >>

\* the state when the DOMContentLoaded handler returns; more are the timers
\* of the modules that the page loads besides the core
StartedOn(webGLSupported, item, more) ==
    /\ now = 0
    /\ localStorage = item
    /\ appState = Boot(webGLSupported, item).appState
    /\ timers = Boot(webGLSupported, item).timers \o more
    /\ inThrottle = [c \in Controls |-> FALSE]
    /\ tableModelGroup = Null
    /\ shadowPlane = Null
    /\ isModelCurrentlyLoaded = FALSE
    /\ scene = {}
    /\ builds = << >>
    /\ header = [material |-> "none", edge |-> "none"]
    /\ edits = << >>
    /\ nEvents = 0
    /\ lastEvent = "none"
    /\ nFailures = 0
    /\ nTicks = 0
    /\ dimensionGroup = Null
    /\ isLabelsVisible = TRUE
    /\ labelMeshes = NoLabels
    /\ lineMeshes = NoLines
    /\ dimensionsBtn = FALSE
    /\ console = NoMessages
    /\ lastInput = NoInput

\* the state when the DOMContentLoaded handler of a page that loads the core
\* alone returns
StartedWith(webGLSupported, item) == StartedOn(webGLSupported, item, << >>)

\* the page is loaded again: every script starts afresh, the stored item stays
Reload ==
    /\ nEvents < limits.events
    /\ appState' = Boot(appState.scene # "null", localStorage).appState
    /\ timers' = Boot(appState.scene # "null", localStorage).timers
                   \o (IF limits.labels
                       THEN LabelTimers(appState.scene # "null", localStorage)
                       ELSE << >>)
    /\ inThrottle' = [c \in Controls |-> FALSE]
    /\ SetModState(NoModel)
    /\ header' = [material |-> "none", edge |-> "none"]
    /\ edits' = << >>
    /\ dimensionGroup' = Null
    /\ isLabelsVisible' = TRUE
    /\ labelMeshes' = NoLabels
    /\ lineMeshes' = NoLines
    /\ dimensionsBtn' = FALSE
    /\ console' = NoMessages
    /\ lastInput' = NoInput
    /\ nEvents' = nEvents + 1
    /\ lastEvent' = "reload"
    /\ priceDisplay' = updatePricing(priceDisplay,
                                     Boot(appState.scene # "null", localStorage).appState)
    /\ UNCHANGED <<now, nFailures, nTicks, limits, localStorage>>

\* the first visit of a browser with WebGL: nothing is stored
Started == StartedWith(TRUE, NoItem)

Init ==
    /\ Started
    /\ priceDisplay = NoSummary
    /\ limits = [events |-> MaxEvents, steps |-> MaxSteps, failures |-> MaxFailures,
                 controls |-> {WidthSlider}, probes |-> FALSE, labels |-> FALSE]

\* runs in which no constructor of the 3D library throws
InitEdit ==
    /\ Started
    /\ priceDisplay = NoSummary
    /\ limits = [events |-> EditEvents, steps |-> EditSteps, failures |-> 0,
                 controls |-> {WidthSlider}, probes |-> FALSE, labels |-> FALSE]

\* the UI events, the timers and the clock
NextEdit ==
    \/ DimensionInput
    \/ StyleClick
    \/ FireDebounce
    \/ FireThrottleReset
    \/ FireCreateTable
    \/ FireLoaded
    \/ Tick

Next ==
    \/ NextEdit
    \/ TextureLoaded
    \/ TextureError

\* every action of the program
Spec == Init /\ [][Next]_vars

\* the rebuild cycle in runs of rapid edits.  What these runs leave out
\* changes no timer of the rebuild cycle and no configuration: a texture
\* completion changes the texture and material records of a build
\* (TextureLoaded, TextureError), and a throwing constructor changes the
\* parts of a build and its ready timer (createTable).
SpecEdit == InitEdit /\ [][NextEdit]_vars

\* runs in which every control is given the ends of its range, values just
\* outside it and a text that is no number
InitInput ==
    /\ Started
    /\ priceDisplay = NoSummary
    /\ limits = [events |-> InputEvents, steps |-> InputSteps, failures |-> 0,
                 controls |-> Controls, probes |-> TRUE, labels |-> FALSE]

NextInput ==
    \/ DimensionInput
    \/ FireDebounce
    \/ FireThrottleReset
    \/ FireCreateTable
    \/ FireLoaded
    \/ Tick

SpecInput == InitInput /\ [][NextInput]_vars

\* runs of a first visit in which every change is saved and the page is
\* loaded again
InitSave ==
    /\ Started
    /\ priceDisplay = NoSummary
    /\ limits = [events |-> SaveEvents, steps |-> SaveSteps, failures |-> 0,
                 controls |-> {WidthSlider, ThicknessSlider}, probes |-> FALSE, labels |-> FALSE]

NextSave ==
    \/ DimensionChange
    \/ StyleClick
    \/ MaterialClick
    \/ Reload
    \/ FireDebounce
    \/ FireThrottleReset
    \/ FireCreateTable
    \/ FireLoaded
    \/ Tick

SpecSave == InitSave /\ [][NextSave]_vars

\* runs in a browser without WebGL: initThreeJS returns at main.js:196 and
\* appState.scene stays null.  The page finds nothing stored, or the item of
\* an earlier visit.
InitNoGL ==
    /\ \E item \in {NoItem,
                    saveStateToLocalStorage([InitialAppState EXCEPT
                                                !.tableWidth = 1200])} :
          StartedWith(FALSE, item)
    /\ priceDisplay = NoSummary
    /\ limits = [events |-> NoGLEvents, steps |-> NoGLSteps, failures |-> 0,
                 controls |-> {WidthSlider}, probes |-> FALSE, labels |-> TRUE]

NextNoGL ==
    \/ DimensionInput
    \/ StyleClick
    \/ MaterialClick
    \/ ToggleDimensions
    \/ FireDebounce
    \/ FireThrottleReset
    \/ Tick

SpecNoGL == InitNoGL /\ [][NextNoGL]_vars

\* the options of the style buttons: data-edge and data-leg
EdgeStyles == {"straight", "beveled", "rounded"}
LegStyles == {"standard", "u-shape", "x-shape", "l-shape"}

\* the values of a dimension that the saved configurations take: the ends
\* of its range and its initial value
SavedValues(dim) ==
    InputValues(dim) \cup {ConfigDimension(ConfigOf(InitialAppState), dim)}

\* the configurations that the controls accept, as an earlier visit saved them
ValidStates ==
    { [InitialAppState EXCEPT !.tableWidth = w, !.tableLength = l,
                              !.tableHeight = h, !.tableThickness = t,
                              !.edgeStyle = e, !.legStyle = g] :
        w \in SavedValues("width"), l \in SavedValues("length"),
        h \in SavedValues("height"), t \in SavedValues("thickness"),
        e \in EdgeStyles, g \in LegStyles }

\* runs of a page that finds a saved valid configuration and builds it
InitBuild ==
    /\ \E f \in ValidStates : StartedWith(TRUE, saveStateToLocalStorage(f))
    /\ priceDisplay = NoSummary
    /\ limits = [events |-> 0, steps |-> BuildSteps, failures |-> 0,
                 controls |-> {}, probes |-> FALSE, labels |-> FALSE]

NextBuild ==
    \/ FireCreateTable
    \/ FireLoaded
    \/ Tick

SpecBuild == InitBuild /\ [][NextBuild]_vars

\* the pricing summary of the page before any script has written to it
EmptySummary ==
    [basePrice |-> 0, tableWidth |-> 0, tableLength |-> 0, material |-> "none"]

\* the dimensions that an earlier visit typed into the number inputs and saved
PricedStates ==
    { [InitialAppState EXCEPT !.tableWidth = w, !.tableLength = l] :
        w \in {1090, 1095}, l \in {1500, 1501} }

\* runs of a page with a pricing summary: main.js:152 and 925 write the
\* first price
InitPrice ==
    /\ \E item \in {NoItem} \cup {saveStateToLocalStorage(f) : f \in PricedStates} :
          /\ StartedWith(TRUE, item)
          /\ priceDisplay = updatePricing(EmptySummary, Boot(TRUE, item).appState)
    /\ limits = [events |-> PriceEvents, steps |-> PriceSteps, failures |-> 0,
                 controls |-> {c \in Controls : c.dim \in {"width", "length"}},
                 probes |-> FALSE, labels |-> FALSE]

NextPrice ==
    \/ DimensionInput
    \/ MaterialClick
    \/ FirePricing
    \/ FireDebounce
    \/ FireThrottleReset
    \/ FireCreateTable
    \/ FireLoaded
    \/ Tick

SpecPrice == InitPrice /\ [][NextPrice]_vars

\* runs of a first visit that clicks on the colour bar and the material grid
InitColor ==
    /\ Started
    /\ priceDisplay = NoSummary
    /\ limits = [events |-> ColorEvents, steps |-> ColorSteps, failures |-> 0,
                 controls |-> {}, probes |-> FALSE, labels |-> FALSE]

NextColor ==
    \/ ColorClick
    \/ MaterialClick
    \/ FireCreateTable
    \/ FireLoaded
    \/ Tick

SpecColor == InitColor /\ [][NextColor]_vars

\* runs of a page that loads dimensionLabels.js, in a browser with WebGL
InitLabels ==
    /\ \E item \in {NoItem,
                    saveStateToLocalStorage([InitialAppState EXCEPT
                                                !.tableWidth = 1200])} :
          StartedOn(TRUE, item, LabelTimers(TRUE, item))
    /\ priceDisplay = NoSummary
    /\ limits = [events |-> LabelEvents, steps |-> LabelSteps, failures |-> 0,
                 controls |-> {c \in Controls : c.dim \in {"width", "height"}},
                 probes |-> FALSE, labels |-> TRUE]

NextLabels ==
    \/ DimensionInput
    \/ ToggleDimensions
    \/ FireLabels
    \/ FireDebounce
    \/ FireThrottleReset
    \/ FireCreateTable
    \/ FireLoaded
    \/ Tick

SpecLabels == InitLabels /\ [][NextLabels]_vars

\* runs of a page that loads dimensionLabels.js and finds a stored item, in
\* a browser with WebGL
InitOverlay ==
    /\ \E item \in {saveStateToLocalStorage([InitialAppState EXCEPT
                                                !.tableWidth = 1200])} :
          StartedOn(TRUE, item, LabelTimers(TRUE, item))
    /\ priceDisplay = NoSummary
    /\ limits = [events |-> OverlayEvents, steps |-> OverlaySteps, failures |-> 0,
                 controls |-> {WidthSlider}, probes |-> FALSE, labels |-> TRUE]

NextOverlay ==
    \/ DimensionInput
    \/ StyleClick
    \/ ToggleDimensions
    \/ Reload
    \/ Animate
    \/ FireLabels
    \/ FireDebounce
    \/ FireThrottleReset
    \/ FireCreateTable
    \/ FireLoaded
    \/ Tick

SpecOverlay == InitOverlay /\ [][NextOverlay]_vars

\* the edge and leg styles that a stored item may hold: those of the page's
\* options and strings that no option carries
RestoredEdgeStyles == {"straight", "beveled", "rounded", "wavy"}
RestoredLegStyles == {"standard", "u-shape", "x-shape", "l-shape", "tripod"}

\* runs of a page that finds a stored item with any of these styles
InitStyles ==
    /\ \E e \in RestoredEdgeStyles, g \in RestoredLegStyles :
          StartedWith(TRUE, saveStateToLocalStorage(
                                [InitialAppState EXCEPT !.edgeStyle = e, !.legStyle = g]))
    /\ priceDisplay = NoSummary
    /\ limits = [events |-> StylesEvents, steps |-> StylesSteps, failures |-> 0,
                 controls |-> {}, probes |-> FALSE, labels |-> FALSE]

NextStyles ==
    \/ StyleClick
    \/ FireCreateTable
    \/ FireLoaded
    \/ Tick

SpecStyles == InitStyles /\ [][NextStyles]_vars

\* configurations that an item found in localStorage may hold.  The item is
\* data outside the program: an earlier version of the page, another page
\* of the same origin or the developer tools may have written it.
ForeignStates ==
    { [InitialAppState EXCEPT !.tableWidth = 1200, !.tableThickness = 40,
                              !.currentMaterialInfo = "mese"],
      [InitialAppState EXCEPT !.tableWidth = 5000],
      [InitialAppState EXCEPT !.tableLength = 0],
      [InitialAppState EXCEPT !.tableThickness = 900],
      [InitialAppState EXCEPT !.tableHeight = -50],
      [InitialAppState EXCEPT !.currentMaterialInfo = "walnut-typo"] }

StoredItems == {NoItem} \cup {saveStateToLocalStorage(f) : f \in ForeignStates}

\* runs of a page that finds any of these items when it loads
InitStore ==
    /\ \E item \in StoredItems : StartedWith(TRUE, item)
    /\ priceDisplay = NoSummary
    /\ limits = [events |-> StoreEvents, steps |-> StoreSteps, failures |-> 0,
                 controls |-> {WidthSlider}, probes |-> FALSE, labels |-> FALSE]

SpecStore == InitStore /\ [][NextEdit]_vars

----------------------------------------------------------------------------
(* The scene and the resources of the assemblies *)

SceneObjects(kind) == {o \in scene : o[1] = kind}

\* C1: in every reachable state the scene holds at most one table assembly
\* group and at most one shadow plane
C1_AtMostOneAssemblyInScene ==
    /\ Cardinality(SceneObjects("group")) <= 1
    /\ Cardinality(SceneObjects("shadow")) <= 1

\* a second assembly has replaced the first one in the scene
C1_Witness ==
    /\ Len(builds) >= 2
    /\ builds[1].returned = "group"
    /\ scene = {Obj("group", Len(builds)), Obj("shadow", Len(builds))}

AliveAssemblies == {j \in 1..Len(builds) : AssemblyAlive(ModState, j)}

Released(i) ==
    LET b == builds[i] IN
    /\ Obj("group", i) \notin scene
    /\ Obj("shadow", i) \notin scene
    /\ \A k \in 1..Len(b.parts) : b.parts[k].disposed
    /\ b.topMat.created => b.topMat.disposed
    /\ b.legMat.created => b.legMat.disposed
    /\ b.tex.created => b.tex.disposed
    /\ b.shadow.created => b.shadow.geomDisposed /\ b.shadow.matDisposed

\* C3: once disposeTableModel has run on an assembly (the assembly was
\* attached and is no longer the module's current one), no handle created for
\* it is in the scene and each of them is disposed
C3_DisposedAssemblyReleased ==
    \A i \in 1..Len(builds) :
        (builds[i].returned = "group" /\ tableModelGroup # i) => Released(i)

----------------------------------------------------------------------------
(* The live path and the settle path *)

\* a rebuild is still to come: a debounced call or a deferred createTable
RebuildPending ==
    \E k \in 1..Len(timers) : timers[k].kind \in {"debounce", "createTable"}

\* the createTable runs that the settle path caused
SettleBuilds == {i \in 1..Len(builds) : builds[i].hist.path = "debounce"}


ThreeEditsSettled ==
    /\ nEvents = 3
    /\ Len(edits) = 3
    /\ edits[2].ctl = edits[1].ctl
    /\ edits[3].ctl = edits[1].ctl
    /\ edits[3].at - edits[1].at <= ThrottleLimit
    /\ now >= edits[3].at + DebounceDelay
    /\ ~RebuildPending

OneSettleWithThirdValue ==
    /\ Cardinality(SettleBuilds) = 1
    /\ \A i \in SettleBuilds :
          ConfigDimension(builds[i].config, edits[3].ctl.dim) = edits[3].value

C6_CyclesDoNotOverlap ==
    Cardinality({k \in 1..Len(timers) : timers[k].kind = "createTable"}) <= 1

----------------------------------------------------------------------------
(* The ready flag, stale texture completions and failing constructors *)

\* C8: in runs where no constructor fails, the ready flag is true only while
\* an assembly is attached to the scene
C8_ReadyOnlyWhenAttached ==
    (nFailures = 0 /\ isModelCurrentlyLoaded) =>
        /\ tableModelGroup # Null
        /\ Obj("group", tableModelGroup) \in scene

\* C9: no step changes a field of the material or of the texture of an
\* assembly that has been disposed
C9_StaleCompletionDiscarded ==
    [][ \A i \in 1..Len(builds) :
           builds[i].topMat.disposed =>
               /\ builds'[i].tex = builds[i].tex
               /\ builds'[i].topMat = builds[i].topMat ]_vars

\* C10: when createTable has run and no deferred createTable is pending, a
\* complete assembly is attached to the scene and each of its parts has a
\* material
C10_CycleEndsWithAssembly ==
    (Len(builds) > 0 /\ \A k \in 1..Len(timers) : timers[k].kind # "createTable") =>
        /\ tableModelGroup # Null
        /\ Obj("group", tableModelGroup) \in scene
        /\ Len(builds[tableModelGroup].parts) > 0
        /\ builds[tableModelGroup].topMat.created
        /\ builds[tableModelGroup].legMat.created


----------------------------------------------------------------------------
(* C11 *)

\* the latest UI event was a dimension input, which this step handled
DimensionInputStep ==
    /\ nEvents' = nEvents + 1
    /\ lastEvent' \in {"dimension", "rejected"}

\* a value outside the documented range of its dimension, or no number
InvalidValue(dim, value) ==
    \/ value = NaN
    \/ value < DimRange(dim).min
    \/ value > DimRange(dim).max

\* C11: a dimension input whose value is no number or lies outside the range
\* of its dimension leaves appState as it was and schedules nothing: the
\* pending timers (the live rebuild, the settle timer, the throttle reset)
\* and the throttle flags are the same before and after the handler.
C11_InvalidEditChangesNothing ==
    [][ (DimensionInputStep /\ InvalidValue(lastInput'.ctl.dim, lastInput'.value))
            => /\ appState' = appState
               /\ timers' = timers
               /\ inThrottle' = inThrottle
               /\ ModState' = ModState ]_vars

\* a thickness above the range has been typed and rejected while the
\* deferred build of the page load was pending
C11_Witness ==
    /\ lastEvent = "rejected"
    /\ lastInput.ctl.dim = "thickness"
    /\ lastInput.value = DimRange("thickness").max + 1
    /\ \E i \in 1..Len(timers) : timers[i].kind = "createTable"


----------------------------------------------------------------------------
(* C14 *)

\* the documented ranges, in tenths of a centimetre: width 80..180,
\* length 100..240, height 65..85, thickness 0.3..5
DocumentedRange(dim) ==
    CASE dim = "width"     -> 800..1800
      [] dim = "length"    -> 1000..2400
      [] dim = "height"    -> 650..850
      [] dim = "thickness" -> 3..50

\* C14: a number given to a dimension control is accepted exactly when it
\* lies in the closed documented range of that dimension.  An accepted
\* value (the ends of the range included) becomes the dimension in
\* appState; a rejected one (a tenth outside the range included) shows the
\* error message of that control.
C14_ValidationAcceptsClosedRanges ==
    [][ (DimensionInputStep /\ lastInput'.value # NaN)
            => LET dim   == lastInput'.ctl.dim
                   value == lastInput'.value
               IN  /\ lastInput'.accepted <=> value \in DocumentedRange(dim)
                   /\ lastInput'.accepted => DimensionOf(appState', dim) = value
                   /\ ~lastInput'.accepted => lastInput'.error = dim ]_vars

\* the width 80, the lower end of its range, has been typed and accepted
C14_Witness ==
    /\ lastEvent = "dimension"
    /\ lastInput = [ctl |-> WidthSlider, value |-> 800, accepted |-> TRUE,
                    error |-> "none"]
    /\ appState.tableWidth = 800

----------------------------------------------------------------------------
(* C12 *)

\* the dimensions of a configuration that the range check of the controls
\* rejects
RejectedDimensions(cfg) ==
    {dim \in {"width", "length", "height", "thickness"} :
        InvalidValue(dim, ConfigDimension(cfg, dim))}

\* C12: a dimension of a stored item reaches appState only when it lies in
\* the range of its control, and no rebuild uses a dimension outside its
\* range: the configuration in appState, the snapshot of every pending
\* createTable and the configuration of every build pass the range check.
C12_RestoreValidatesDimensions ==
    /\ RejectedDimensions(ConfigOf(appState)) = {}
    /\ \A i \in 1..Len(timers) :
          timers[i].kind = "createTable" => RejectedDimensions(timers[i].cfg) = {}
    /\ \A j \in 1..Len(builds) : RejectedDimensions(builds[j].config) = {}

----------------------------------------------------------------------------
(* C13 *)

\* C13: the four dimensions in appState are positive and the thickness is
\* less than the height; every assembly that has been built has legs of
\* positive height.
C13_DimensionsPositive ==
    /\ appState.tableWidth > 0
    /\ appState.tableLength > 0
    /\ appState.tableHeight > 0
    /\ appState.tableThickness > 0
    /\ appState.tableThickness < appState.tableHeight
    /\ \A j \in 1..Len(builds) :
          builds[j].returned = "group" => legHeight(builds[j].config) > 0

----------------------------------------------------------------------------
(* C15 *)

\* this step loads the page again
ReloadStep ==
    /\ nEvents' = nEvents + 1
    /\ lastEvent' = "reload"

\* C15: when the stored item is the one saveStateToLocalStorage writes for
\* the present appState, loading the page again gives an appState with the
\* same width, length, height, thickness, material id, edge style and leg
\* style, and the range check of the controls accepts its four dimensions.
C15_SaveLoadRoundTrip ==
    [][ (ReloadStep /\ localStorage = saveStateToLocalStorage(appState))
            => /\ ConfigOf(appState') = ConfigOf(appState)
               /\ appState'.currentMaterialInfo = appState.currentMaterialInfo
               /\ RejectedDimensions(ConfigOf(appState')) = {} ]_vars

\* the page has been loaded again after the thickness 0.3 was saved
C15_Witness ==
    /\ lastEvent = "reload"
    /\ localStorage # NoItem
    /\ appState.tableThickness = 3
    /\ localStorage = saveStateToLocalStorage(appState)

----------------------------------------------------------------------------
(* C16 *)

\* this step runs createTable for a material id that the catalog lacks
UnknownMaterialBuildStep ==
    /\ Len(builds') = Len(builds) + 1
    /\ builds'[Len(builds')].config.material \notin DOMAIN MATERIALS

\* C16: a rebuild for a material id that is not in the catalog makes its
\* top material from the entry of 'ceviz', writes exactly one fallback
\* warning to the console, and attaches its assembly to the scene.
C16_UnknownMaterialOneWarning ==
    [][ UnknownMaterialBuildStep
            => LET b == builds'[Len(builds')] IN
               /\ b.topMat.color = MATERIALS["ceviz"]
               /\ header'.material = "ceviz"
               /\ Obj("group", Len(builds')) \in scene'
               /\ console'.fallback = console.fallback + 1 ]_vars

----------------------------------------------------------------------------
(* C17 *)

\* the texture of build i fails to load in this step
TextureFailsStep(i) ==
    /\ i \in 1..Len(builds)
    /\ builds[i].tex.status = "loading"
    /\ Len(builds') = Len(builds)
    /\ builds'[i].tex.status = "failed"

\* C17: when the texture of a build fails to load, the top material of that
\* build has no texture and the colour of its catalog entry, the failure is
\* written to the console, nothing is thrown, and the scene holds what it
\* held before.
C17_TextureFailureFallsBack ==
    [][ \A i \in 1..Len(builds) :
          TextureFailsStep(i)
            => /\ builds'[i].topMat.map = "none"
               /\ builds'[i].topMat.color =
                     getMaterialProperties(builds[i].config.material).color
               /\ console'.error > console.error
               /\ console'.uncaught = console.uncaught
               /\ scene' = scene
               /\ tableModelGroup' = tableModelGroup ]_vars

----------------------------------------------------------------------------
(* C18 *)

\* the materials and the texture of build j that dispose() has been called on
DisposedHandles(bs, j) ==
    {k \in {"topMat", "legMat", "tex"} :
        CASE k = "topMat" -> bs[j].topMat.disposed
          [] k = "legMat" -> bs[j].legMat.disposed
          [] k = "tex"    -> bs[j].tex.disposed}

\* no material and no texture of build i is an object of build j
IndependentHandles(bs, i, j) ==
    /\ ~SameObject(bs[i].topMat, bs[j].topMat)
    /\ ~SameObject(bs[i].tex, bs[j].tex)

\* C18: the materials and textures that createMaterial returns for two
\* rebuilds are different objects, also when the material id is the same;
\* and a step that disposes a material or a texture of a build disposes
\* those of the one assembly that was attached before the step, so that the
\* materials and textures of the other builds (a texture still loading
\* among them) stay as they were.
C18_HandlesIndependent ==
    [][ /\ \A i, j \in 1..Len(builds') :
              i # j => IndependentHandles(builds', i, j)
        /\ \A j \in 1..Len(builds) :
              DisposedHandles(builds', j) # DisposedHandles(builds, j)
                  => j = tableModelGroup ]_vars

\* an assembly has been disposed while the texture of another build of the
\* same material id is loading, and that texture has not been disposed
C18_Witness ==
    \E i, j \in 1..Len(builds) :
        /\ i # j
        /\ builds[i].config.material = builds[j].config.material
        /\ builds[i].topMat.disposed
        /\ builds[i].tex.disposed
        /\ builds[j].tex.status = "loading"
        /\ ~builds[j].tex.disposed
        /\ ~builds[j].topMat.disposed

----------------------------------------------------------------------------
(* C19 *)

\* C19: while the scene has not been created, no assembly and no overlay
\* exists, nothing is attached to a scene, no createTable is pending, and
\* no handler has thrown.
C19_NoWebGLBypassesCore ==
    appState.scene = "null"
        => /\ builds = << >>
           /\ tableModelGroup = Null
           /\ scene = {}
           /\ \A i \in 1..Len(timers) : timers[i].kind # "createTable"
           /\ dimensionGroup = Null
           /\ console.uncaught = 0

----------------------------------------------------------------------------
(* C20 *)

\* the updateTableModel calls that the live path has made so far: each has
\* left one deferred createTable, pending or run
LiveCalls ==
    Cardinality({k \in 1..Len(timers) :
                    timers[k].kind = "createTable" /\ timers[k].hist.path = "throttle"})
    + Cardinality({i \in 1..Len(builds) : builds[i].hist.path = "throttle"})

\* C20: the live path of a control calls updateTableModel in the handler of
\* an edit or not at all.  The first edit of a control is called at once; an
\* edit less than ThrottleLimit after an edit of the same control whose call
\* ran makes no call; and no later step makes up for a dropped call, so two
\* calls of one control are never less than ThrottleLimit apart.
C20_ThrottleOncePerPeriod ==
    [][ /\ Len(edits') = Len(edits) + 1
            => LET e == edits'[Len(edits')]
                   first  == \A k \in 1..Len(edits) : edits[k].ctl # e.ctl
                   recent == \E k \in 1..Len(edits) :
                                /\ edits[k].ctl = e.ctl
                                /\ edits[k].live
                                /\ e.at - edits[k].at < ThrottleLimit
               IN  /\ LiveCalls' = LiveCalls + (IF e.live THEN 1 ELSE 0)
                   /\ first => e.live
                   /\ recent => ~e.live
        /\ Len(edits') # Len(edits) + 1 => LiveCalls' = LiveCalls ]_vars

\* three edits of the width slider: the call of the first ran, that of the
\* second, inside the period, was dropped, that of the third ran
C20_Witness ==
    /\ Len(edits) = 3
    /\ edits[1].live
    /\ ~edits[2].live
    /\ edits[2].at - edits[1].at < ThrottleLimit
    /\ edits[3].live
    /\ LiveCalls = 2

----------------------------------------------------------------------------
(* C21 *)

\* the builds whose createTable returned an assembly
Assemblies == {j \in 1..Len(builds) : builds[j].returned = "group"}

\* the indices of the meshes of a sequence that satisfy Test
MeshesWith(meshes, Test(_)) == {k \in 1..Len(meshes) : Test(meshes[k])}

\* the number of leg parts of each leg style but l-shape
LegParts(legStyle) ==
    CASE legStyle = "standard" -> 4
      [] legStyle = "u-shape"  -> 6
      [] legStyle = "x-shape"  -> 4

\* C21: an assembly built for a leg style other than l-shape has exactly
\* one table top and the number of leg meshes of its leg style: 4 posts for
\* standard; 2 posts on each of 2 sides and 2 connectors for u-shape; 2 bars
\* in each of 2 frames for x-shape.
C21_PartCounts ==
    \A j \in Assemblies :
        LET cfg    == builds[j].config
            meshes == BuiltMeshes(cfg)
            rise   == ToMetres(cfg.height) - ToMetres(cfg.thickness)
            posts(z) == MeshesWith(meshes, LAMBDA p :
                            /\ p.material = "leg" /\ p.size.y = rise
                            /\ p.position.z = z)
        IN  cfg.legStyle # "l-shape"
            => /\ Len(builds[j].parts) = Len(meshes)
               /\ Cardinality(MeshesWith(meshes, LAMBDA p : p.material = "top")) = 1
               /\ Cardinality(MeshesWith(builds[j].parts,
                                         LAMBDA p : p.material = "top")) = 1
               /\ meshes[1].name = "TableTop"
               /\ Cardinality(MeshesWith(meshes, LAMBDA p : p.material = "leg"))
                     = LegParts(cfg.legStyle)
               /\ Cardinality(MeshesWith(builds[j].parts,
                                         LAMBDA p : p.material = "leg"))
                     = LegParts(cfg.legStyle)
               /\ cfg.legStyle = "u-shape"
                    => \E z \in {meshes[k].position.z : k \in 1..Len(meshes)} :
                          /\ z > 0
                          /\ Cardinality(posts(z)) = 2
                          /\ Cardinality(posts(-z)) = 2
                          /\ Cardinality(MeshesWith(meshes, LAMBDA p :
                                 p.material = "leg" /\ p.size.y # rise)) = 2
               /\ cfg.legStyle = "x-shape"
                    => \A frame \in {"xFrameGroup0", "xFrameGroup1"} :
                          Cardinality(MeshesWith(meshes, LAMBDA p :
                                          p.parent = frame)) = 2

\* an assembly with U-shaped legs is attached to the scene
C21_Witness ==
    \E j \in Assemblies :
        /\ builds[j].config.legStyle = "u-shape"
        /\ builds[j].config.edgeStyle = "rounded"
        /\ Obj("group", j) \in scene

----------------------------------------------------------------------------
(* C22 *)

\* C22: an assembly built for the leg style l-shape consists of exactly two
\* slabs, the main arm of the full width and 60% of the length and the side
\* arm of 40% of the width and the full length, and of six legs; it has no
\* table top of the edge style and no part of the builders of the other leg
\* styles, whatever the edge style is.
C22_LShapeParts ==
    \A j \in Assemblies :
        LET cfg    == builds[j].config
            meshes == BuiltMeshes(cfg)
            width  == ToMetres(cfg.width)
            length == ToMetres(cfg.length)
            thick  == ToMetres(cfg.thickness)
            tops   == MeshesWith(meshes, LAMBDA p : p.material = "top")
            legs   == MeshesWith(meshes, LAMBDA p : p.material = "leg")
        IN  cfg.legStyle = "l-shape"
            => /\ Len(meshes) = 8
               /\ Len(builds[j].parts) = 8
               /\ Cardinality(tops) = 2
               /\ Cardinality(legs) = 6
               /\ \E m, s \in tops :
                     /\ m # s
                     /\ 10 * meshes[m].size.z = 6 * length
                     /\ meshes[m].size.x = width
                     /\ 10 * meshes[s].size.x = 4 * width
                     /\ meshes[s].size.z = length
                     /\ meshes[m].size.y = thick /\ meshes[s].size.y = thick
               /\ \A k \in 1..Len(meshes) :
                     /\ meshes[k].geometry = "BoxGeometry"
                     /\ meshes[k].name # "TableTop"
                     /\ meshes[k].name \in {"MainArm", "SideArm"}
                                            \cup {"LLeg_0", "LLeg_1", "LLeg_2",
                                                  "LLeg_3", "LLeg_4", "LLeg_5"}
               /\ \A e \in EdgeStyles :
                     BuiltMeshes([cfg EXCEPT !.edgeStyle = e]) = meshes

\* an L-shaped assembly asked for with beveled edges is attached to the scene
C22_Witness ==
    \E j \in Assemblies :
        /\ builds[j].config.legStyle = "l-shape"
        /\ builds[j].config.edgeStyle = "beveled"
        /\ Obj("group", j) \in scene

----------------------------------------------------------------------------
(* C23 *)

\* width x thickness x length of a configuration, in the units of the scene
Envelope(cfg) ==
    Vector3(ToMetres(cfg.width), ToMetres(cfg.thickness), ToMetres(cfg.length))

\* C23: for each edge style the box that bounds the table top of an assembly
\* is exactly width x thickness x length of its configuration in metres: the
\* corners and bevels of the beveled and rounded tops do not reach beyond it.
C23_TopBoxIsEnvelope ==
    \A j \in Assemblies :
        LET cfg == builds[j].config IN
        cfg.legStyle # "l-shape"
            => BuiltMeshes(cfg)[1].size = Envelope(cfg)

\* what the builders do keep: the straight top is the envelope
\* and the extruded tops are never smaller than it
C23_StraightTopIsEnvelope ==
    \A j \in Assemblies :
        LET cfg == builds[j].config
            top == BuiltMeshes(cfg)[1]
        IN  cfg.legStyle # "l-shape"
            => /\ cfg.edgeStyle = "straight" => top.size = Envelope(cfg)
               /\ top.size.x >= Envelope(cfg).x
               /\ top.size.y >= Envelope(cfg).y
               /\ top.size.z >= Envelope(cfg).z

----------------------------------------------------------------------------
(* C24 *)

\* x centimetres of the configuration units, y of the scene units
SameLength(cm, m) == cm * PerMetre = m * 10 * CmPerMetre

\* the height of the upper face of a mesh: its centre plus half its size
TopFace(mesh) == mesh.position.y + mesh.size.y \div 2

\* C24: the builders take a hundredth of each dimension in centimetres as
\* metres and give every leg the height minus the thickness.  The
\* configuration 109 x 150 x 75 cm, 3 cm thick, straight, standard has a
\* top of 1.09 x 1.50 x 0.03 m with its upper face at 0.75 m and four legs
\* of 0.72 m.
C24_MetresAndLegHeight ==
    \A j \in Assemblies :
        LET cfg    == builds[j].config
            meshes == BuiltMeshes(cfg)
            legs   == MeshesWith(meshes, LAMBDA p : p.material = "leg")
            rise(p) == IF cfg.legStyle = "x-shape" THEN p.rise ELSE p.size.y
            posts  == {k \in legs : cfg.legStyle = "u-shape"
                                      => meshes[k].size.x = meshes[k].size.z}
        IN  /\ \A k \in posts :
                  SameLength(cfg.height - cfg.thickness, rise(meshes[k]))
            /\ Cardinality(posts) >= 4
            /\ cfg.legStyle # "l-shape" /\ cfg.edgeStyle = "straight"
                 => /\ SameLength(cfg.width, meshes[1].size.x)
                    /\ SameLength(cfg.thickness, meshes[1].size.y)
                    /\ SameLength(cfg.length, meshes[1].size.z)
                    /\ SameLength(cfg.height, TopFace(meshes[1]))
            /\ ( /\ cfg.width = 1090 /\ cfg.length = 1500
                 /\ cfg.height = 750 /\ cfg.thickness = 30
                 /\ cfg.edgeStyle = "straight" /\ cfg.legStyle = "standard" )
                 => /\ meshes[1].size = Vector3(109 * (PerMetre \div 100),
                                                3 * (PerMetre \div 100),
                                                150 * (PerMetre \div 100))
                    /\ TopFace(meshes[1]) = 75 * (PerMetre \div 100)
                    /\ Cardinality(legs) = 4
                    /\ \A k \in legs :
                          /\ meshes[k].size.y = 72 * (PerMetre \div 100)
                          /\ TopFace(meshes[k]) = 72 * (PerMetre \div 100)

\* the assembly of 109 x 150 x 75 cm, 3 cm thick, straight, standard is
\* attached to the scene
C24_Witness ==
    \E j \in Assemblies :
        /\ builds[j].config = ConfigOf(InitialAppState)
        /\ ConfigOf(InitialAppState).width = 1090
        /\ ConfigOf(InitialAppState).edgeStyle = "straight"
        /\ ConfigOf(InitialAppState).legStyle = "standard"
        /\ Obj("group", j) \in scene

----------------------------------------------------------------------------
(* C25 *)

\* the area surcharge inside a price shown by the pricing summary
ShownSurcharge == priceDisplay.basePrice - BasePrice - materialPremium(priceDisplay.material)

\* the area that a shown price was computed from, in hundredths of a cm2
ShownArea == priceDisplay.tableWidth * priceDisplay.tableLength

C25_WitnessSmall ==
    /\ priceDisplay # NoSummary
    /\ ShownArea < standardArea
    /\ lastEvent = "dimension"

----------------------------------------------------------------------------
(* C26 *)

\* a step is a click on an entry of the material information grid
MaterialInfoStep == nEvents' = nEvents + 1 /\ lastEvent' = "material"

\* C26: a click on an entry of the material information grid changes only
\* currentMaterialInfo and currentMaterialName: the material, the colour and
\* every other field of the configuration stay as they were, and no rebuild
\* is started (nothing is disposed and no timer is set).
C26_MaterialInfoOnly ==
    [][MaterialInfoStep
         => /\ appState' = [appState EXCEPT
                               !.currentMaterialInfo = appState'.currentMaterialInfo,
                               !.currentMaterialName = appState'.currentMaterialName]
            /\ ConfigOf(appState') = ConfigOf(appState)
            /\ timers' = timers
            /\ UNCHANGED <<tableModelGroup, shadowPlane, isModelCurrentlyLoaded,
                           scene, builds>>]_vars

----------------------------------------------------------------------------
(* C27 *)

\* the rebuilds that are still to run
PendingRebuild == \E k \in 1..Len(timers) : timers[k].kind = "createTable"

\* C27: once the rebuild that a click on the colour bar started has run, the
\* material of the table top of the attached assembly has the selected
\* colour, appState.currentColor.
C27_TopHasSelectedColor ==
    ( /\ lastEvent = "color"
      /\ ~PendingRebuild
      /\ tableModelGroup # Null )
        => /\ builds[tableModelGroup].hist.path = "color"
           /\ builds[tableModelGroup].topMat.color = ColorValue(appState.currentColor)

----------------------------------------------------------------------------
(* C28 *)

\* how many of the references of labelMeshes and lineMeshes, 3 labels and
\* 9 lines, are set
NumReferencesSet ==
    Cardinality({d \in DOMAIN labelMeshes : labelMeshes[d] # NoMesh})
    + Cardinality({<<d, e>> \in {"width", "length", "height"}
                                \X {"main", "leftEnd", "rightEnd", "frontEnd",
                                    "backEnd", "bottomEnd", "topEnd"} :
                      e \in DOMAIN lineMeshes[d] /\ lineMeshes[d][e] # NoMesh})

\* no overlay group, and every reference is null
OverlayAbsent ==
    /\ dimensionGroup = Null
    /\ NumReferencesSet = 0
    /\ \A x \in scene : x[1] # "overlay"

\* the overlay group is attached to the scene, and every reference is set
OverlayPresent ==
    /\ dimensionGroup # Null
    /\ Obj("overlay", dimensionGroup) \in scene
    /\ NumReferencesSet = 12
    /\ isLabelsVisible

\* C28: in every state the overlay is fully absent or fully present, never
\* partial or hidden; a click that calls toggleDimensionLabels(false) leaves
\* it fully absent and one that calls toggleDimensionLabels(true, dimensions)
\* leaves it fully present.
C28_OverlayWhole ==
    /\ OverlayAbsent \/ OverlayPresent
    /\ lastEvent = "dimensions" /\ ~dimensionsBtn => OverlayAbsent
    /\ lastEvent = "dimensions" /\ dimensionsBtn => OverlayPresent

----------------------------------------------------------------------------
(* C29 *)

\* updateDimensionLabels has been called with the dimensions of appState:
\* by the handler of the latest event, an accepted edit, or by the deferred
\* call of the page load
LabelsUpdated ==
    \/ lastEvent = "dimension"
    \/ /\ now >= LabelsDelay
       /\ \A k \in 1..Len(timers) : timers[k].kind # "labels"

\* C29: while the annotations are switched on and the scene exists, an
\* overlay for the dimensions is in the scene after updateDimensionLabels
\* has been called with them: the call creates it when there is none.
C29_UpdateShowsOverlay ==
    ( /\ limits.labels
      /\ isLabelsVisible
      /\ appState.scene # "null"
      /\ LabelsUpdated )
        => /\ dimensionGroup # Null
           /\ Obj("overlay", dimensionGroup) \in scene
           /\ \A d \in DOMAIN labelMeshes :
                 /\ labelMeshes[d] # NoMesh
                 /\ labelMeshes[d].text = LabelText(DimensionsOf(appState)[d])

----------------------------------------------------------------------------
(* C30 *)

\* the overlay that createDimensionLabels builds for the dimensions of appState
RebuiltOverlay ==
    createDimensionLabels(OverlayState, appState.scene, DimensionsOf(appState))

\* the handler of the latest event, an accepted edit, has updated an overlay
\* that was there
FastPathRan ==
    /\ limits.labels
    /\ lastEvent = "dimension"
    /\ dimensionGroup # Null
    /\ isLabelsVisible
    /\ appState.scene # "null"

\* C30: an overlay built for some dimensions and then updated by
\* updateDimensionLabels with others has the label texts, label positions,
\* label sizes, line sizes and line positions of the overlay that
\* createDimensionLabels builds for the latter.
C30_FastPathEqualsRebuild ==
    FastPathRan
        => /\ lineMeshes = RebuiltOverlay.lineMeshes
           /\ \A d \in DOMAIN labelMeshes :
                 /\ labelMeshes[d].text = RebuiltOverlay.labelMeshes[d].text
                 /\ labelMeshes[d].position = RebuiltOverlay.labelMeshes[d].position
                 /\ labelMeshes[d].plane = RebuiltOverlay.labelMeshes[d].plane

\* what the fast path does keep: the texts and positions of the labels and
\* the lines are those of a rebuild
FastPathKeepsTextsAndLines ==
    FastPathRan
        => /\ lineMeshes = RebuiltOverlay.lineMeshes
           /\ \A d \in DOMAIN labelMeshes :
                 /\ labelMeshes[d].text = RebuiltOverlay.labelMeshes[d].text
                 /\ labelMeshes[d].position = RebuiltOverlay.labelMeshes[d].position

----------------------------------------------------------------------------
(* C31 *)

\* this step is a click on the annotation button or loads the page again:
\* the steps that build or drop the overlay
OverlayBuiltOrDroppedStep ==
    /\ nEvents' = nEvents + 1
    /\ lastEvent' \in {"dimensions", "reload"}

\* this step is the handler of an accepted edit or of a style click: both
\* call updateDimensionLabels
FastUpdateStep ==
    /\ nEvents' = nEvents + 1
    /\ lastEvent' \in {"dimension", "style"}

\* after the step label d has the canvas, the texture and the material it
\* had before: none is disposed, the texture draws from the canvas and is
\* the map of the material
SameBacking(d) ==
    /\ labelMeshes'[d] # NoMesh
    /\ labelMeshes'[d].canvas = labelMeshes[d].canvas
    /\ labelMeshes'[d].texture.handle = labelMeshes[d].texture.handle
    /\ labelMeshes'[d].material.handle = labelMeshes[d].material.handle
    /\ labelMeshes'[d].texture.image = labelMeshes[d].canvas
    /\ labelMeshes'[d].material.map = labelMeshes[d].texture.handle
    /\ ~labelMeshes'[d].texture.disposed
    /\ ~labelMeshes'[d].material.disposed

\* C31: updateDimensionLabels never disposes or replaces the texture, the
\* canvas or the material of a label.  Over every step but a click on the
\* annotation button and a page load, each label that exists keeps its
\* canvas, texture and material; a fast update draws the text of the current
\* dimension on the canvas and flags the texture for upload (its version
\* rises), and a text never changes without that flag.
C31_LabelsKeepBacking ==
    [][ ~OverlayBuiltOrDroppedStep
            => \A d \in DOMAIN labelMeshes :
                  labelMeshes[d] # NoMesh
                      => /\ SameBacking(d)
                         /\ labelMeshes'[d].texture.version
                                >= labelMeshes[d].texture.version
                         /\ labelMeshes'[d].text # labelMeshes[d].text
                                => labelMeshes'[d].texture.version
                                       > labelMeshes[d].texture.version
                         /\ FastUpdateStep
                                => /\ labelMeshes'[d].texture.version
                                          > labelMeshes[d].texture.version
                                   /\ labelMeshes'[d].text
                                          = LabelText(DimensionsOf(appState')[d]) ]_vars

\* the width label was made by the first click, for the width 120, and has
\* been drawn again three times or more: it shows another width on the
\* canvas of the first click
C31_Witness ==
    /\ dimensionGroup # Null
    /\ labelMeshes.width # NoMesh
    /\ labelMeshes.width.canvas = 1
    /\ labelMeshes.width.texture.handle = 1
    /\ labelMeshes.width.texture.version >= 5
    /\ labelMeshes.width.text = LabelText(appState.tableWidth)
    /\ appState.tableWidth # 1200

----------------------------------------------------------------------------
(* C32 *)

\* C32: between the handlers, an overlay that is in the scene has its three
\* labels, and they show the width, length and height of appState as
\* "<value> cm", whatever edits, clicks on the annotation button, style
\* clicks and page loads came before.
C32_LabelsShowAppState ==
    ( /\ dimensionGroup # Null
      /\ Obj("overlay", dimensionGroup) \in scene )
        => \A d \in DOMAIN labelMeshes :
              /\ labelMeshes[d] # NoMesh
              /\ labelMeshes[d].text = LabelText(DimensionsOf(appState)[d])

\* the overlay was switched on and the width was edited after that: the
\* width label shows the new width
C32_Witness ==
    /\ dimensionGroup # Null
    /\ Obj("overlay", dimensionGroup) \in scene
    /\ lastEvent = "dimension"
    /\ appState.tableWidth # 1200
    /\ labelMeshes.width.text = LabelText(appState.tableWidth)

\* the overlay was switched on after the page was loaded again
C32_WitnessRestored ==
    /\ dimensionGroup # Null
    /\ Obj("overlay", dimensionGroup) \in scene
    /\ lastEvent = "dimensions"
    /\ nEvents = 2
    /\ edits = << >>
    /\ labelMeshes.width.text = LabelText(1200)

----------------------------------------------------------------------------
(* C33 *)

\* a frame is drawn: no event is handled, no timer runs, the clock stands
FrameStep ==
    /\ nEvents' = nEvents
    /\ timers' = timers
    /\ nTicks' = nTicks

\* label d is after the step what it was before, but for its rotation
SameButRotation(d) ==
    IF labelMeshes[d] = NoMesh
    THEN labelMeshes'[d] = NoMesh
    ELSE /\ labelMeshes'[d] # NoMesh
         /\ [labelMeshes'[d] EXCEPT !.rotation = labelMeshes[d].rotation] = labelMeshes[d]

\* C33: a frame's updateLabelOrientations changes nothing but the rotation
\* of the three labels: the lines, the labels' position, text and canvas,
\* the group, its visibility and the objects of the scene stay, and without
\* an overlay nothing changes at all.
C33_FrameTurnsLabelsOnly ==
    [][FrameStep =>
          /\ lineMeshes' = lineMeshes
          /\ dimensionGroup' = dimensionGroup
          /\ isLabelsVisible' = isLabelsVisible
          /\ scene' = scene
          /\ \A d \in DOMAIN labelMeshes : SameButRotation(d)
          /\ dimensionGroup = Null => labelMeshes' = labelMeshes]_vars

\* a frame has turned the width label of a visible overlay to the camera
C33_Witness ==
    /\ dimensionGroup # Null
    /\ isLabelsVisible
    /\ labelMeshes.width # NoMesh
    /\ labelMeshes.width.rotation # NoRotation
    /\ \E camera \in CameraPositions :
          labelMeshes.width.rotation = LookAt(labelMeshes.width.position, camera)

----------------------------------------------------------------------------
(* C34 *)

\* the objects of the table in a scene, and those of the overlay
TableObjects(s) == {x \in s : x[1] \in {"group", "shadow"}}
OverlayObjects(s) == {x \in s : x[1] = "overlay"}

\* what tableModel.js holds of the table, and dimensionLabels.js of the overlay
TableAssembly ==
    <<tableModelGroup, shadowPlane, builds, TableObjects(scene)>>
Overlay ==
    <<dimensionGroup, isLabelsVisible, labelMeshes, lineMeshes, OverlayObjects(scene)>>

\* the module state of tableModel.js m keeps the overlay objects of the scene
KeepsOverlay(m) == OverlayObjects(m.scene) = OverlayObjects(scene)

\* the overlay state o keeps the table objects of the scene
KeepsTable(o) == TableObjects(o.scene) = TableObjects(scene)

\* C34: in every state the program reaches, createTable and disposeTableModel
\* leave the overlay objects of the scene where they are, and createDimensionLabels,
\* updateDimensionLabels, toggleDimensionLabels and disposeDimensionLabels
\* leave the table assembly and the shadow plane of the scene where they are.
\* (The two modules keep their own references; the scene is all they share.)
C34_TableAndOverlayApart ==
    /\ KeepsOverlay(disposeTableModel(ModState))
    /\ \A failure \in {"none", "load", "top", "leg"} :
          KeepsOverlay(createTable(ModState, ConfigOf(appState), failure,
                                   [path |-> "none"]).m)
    /\ limits.labels =>
          /\ KeepsTable(createDimensionLabels(OverlayState, appState.scene,
                                              DimensionsOf(appState)))
          /\ KeepsTable(updateDimensionLabels(OverlayState, appState.scene,
                                              DimensionsOf(appState)))
          /\ \A visible \in BOOLEAN :
                KeepsTable(toggleDimensionLabels(OverlayState, visible, appState.scene,
                                                 DimensionsOf(appState)))
          /\ KeepsTable(disposeDimensionLabels(OverlayState, appState.scene))

\* createTable runs (with the disposeTableModel it starts with)
CreateTableStep == Len(builds') = Len(builds) + 1

\* toggleDimensionLabels runs, from the click on the annotation button
ToggleStep ==
    /\ nEvents' = nEvents + 1
    /\ lastEvent' = "dimensions"

\* the same in the runs: the deferred build changes nothing of the overlay,
\* the click on the annotation button nothing of the table
TableAndOverlayStepsApart ==
    [][/\ CreateTableStep => Overlay' = Overlay
       /\ ToggleStep => TableAssembly' = TableAssembly]_vars

\* the second assembly replaced the first while the overlay was in the scene
C34_Witness ==
    /\ lastEvent = "style"
    /\ nEvents = 2
    /\ tableModelGroup = 2
    /\ Obj("group", 2) \in scene
    /\ dimensionGroup # Null
    /\ Obj("overlay", dimensionGroup) \in scene
    /\ labelMeshes.width # NoMesh

\* the overlay was switched on and off again beside a built table
C34_WitnessToggled ==
    /\ lastEvent = "dimensions"
    /\ nEvents = 2
    /\ dimensionGroup = Null
    /\ tableModelGroup = 1
    /\ TableObjects(scene) = {Obj("group", 1), Obj("shadow", 1)}

----------------------------------------------------------------------------
(* C35 *)

Abs(x) == IF x < 0 THEN -x ELSE x

\* the distance of the centre of a post from the nearer edge of the top
\* along x, and along z
InsetX(cfg, post) == ToMetres(cfg.width) \div 2 - Abs(post.position.x)
InsetZ(cfg, post) == ToMetres(cfg.length) \div 2 - Abs(post.position.z)

\* the four posts of an assembly with standard legs stand inset from the
\* edges by inset(s) and have a square section of side side(s), where s is
\* the smaller of width and length
StandardLegsHave(inset(_), side(_)) ==
    \A j \in Assemblies :
        LET cfg    == builds[j].config
            meshes == BuiltMeshes(cfg)
            legs   == MeshesWith(meshes, LAMBDA p : p.material = "leg")
            s      == Min(ToMetres(cfg.width), ToMetres(cfg.length))
        IN  cfg.legStyle = "standard"
            => /\ Cardinality(legs) = 4
               /\ \A k \in legs :
                     /\ InsetX(cfg, meshes[k]) = inset(s)
                     /\ InsetZ(cfg, meshes[k]) = inset(s)
                     /\ meshes[k].size.x = side(s)
                     /\ meshes[k].size.z = side(s)

\* C35: with standard legs each post is inset from the edges of the table by
\* max(10 cm, 10% of min(width, length)) and has a square cross-section of
\* side max(4 cm, 5% of min(width, length)), for every valid width and length.
C35_StandardLegInsetFloorTen ==
    StandardLegsHave(LAMBDA s : Max(Times(PerMetre, 10, 100), Times(s, 10, 100)),
                     LAMBDA s : Max(Times(PerMetre, 4, 100), Times(s, 5, 100)))

\* what the builder gives: the inset is max(5 cm, 10% of min(width, length))
StandardLegInsetFloorFive ==
    StandardLegsHave(LAMBDA s : Max(Times(PerMetre, 5, 100), Times(s, 10, 100)),
                     LAMBDA s : Max(Times(PerMetre, 4, 100), Times(s, 5, 100)))

\* a table 80 cm wide with standard legs has been built
StandardLegsOfNarrowTable ==
    \E j \in Assemblies :
        /\ builds[j].config.legStyle = "standard"
        /\ builds[j].config.width = 800

----------------------------------------------------------------------------
(* C36 *)

----------------------------------------------------------------------------
(* C37 *)

\* tableModel.js tracks no assembly and no shadow plane
NothingTracked == tableModelGroup = Null /\ shadowPlane = Null

\* C37: disposeTableModel is idempotent: called when no assembly is tracked,
\* or a second time in a row, it changes neither the scene nor the module
\* state and disposes nothing.
C37_DisposeIdempotent ==
    /\ disposeTableModel(disposeTableModel(ModState)) = disposeTableModel(ModState)
    /\ NothingTracked => disposeTableModel(ModState) = ModState

\* what holds: a second call in a row changes nothing, and a call with
\* nothing tracked changes nothing but the ready flag, which it lowers
DisposeTwiceIsOnce ==
    /\ disposeTableModel(disposeTableModel(ModState)) = disposeTableModel(ModState)
    /\ NothingTracked
         => disposeTableModel(ModState) = [ModState EXCEPT !.isModelCurrentlyLoaded = FALSE]

\* the ready flag is up while nothing is tracked
ReadyWithNothingTracked == NothingTracked /\ isModelCurrentlyLoaded

----------------------------------------------------------------------------
(* C38 *)

\* the meshes of the builders for the configuration cfg
StraightTopOf(cfg) ==
    createStraightTableTop(ToMetres(cfg.width), ToMetres(cfg.length),
                           ToMetres(cfg.height), ToMetres(cfg.thickness))
StandardLegsOf(cfg) ==
    createStandardLegsGeometry(ToMetres(cfg.width), ToMetres(cfg.length),
                               ToMetres(cfg.height), ToMetres(cfg.thickness))
LShapeTableOf(cfg) ==
    createLShapeTable(ToMetres(cfg.width), ToMetres(cfg.length),
                      ToMetres(cfg.height), ToMetres(cfg.thickness))

\* the meshes of assembly j in the group are those built for its configuration
HoldsMeshes(j, meshes) ==
    /\ Len(builds[j].parts) = Len(meshes)
    /\ \A k \in 1..Len(meshes) : builds[j].parts[k].name = meshes[k].name

\* every assembly has a top and legs
HasTopAndLegs ==
    \A j \in Assemblies :
        /\ \E k \in 1..Len(builds[j].parts) : builds[j].parts[k].material = "top"
        /\ \E k \in 1..Len(builds[j].parts) : builds[j].parts[k].material = "leg"

\* a leg style other than 'u-shape', 'x-shape' and 'l-shape' builds the four
\* standard legs
OtherLegStylesAreStandard ==
    \A j \in Assemblies :
        LET cfg    == builds[j].config
            meshes == BuiltMeshes(cfg)
        IN  cfg.legStyle \notin {"u-shape", "x-shape", "l-shape"}
            => /\ SubSeq(meshes, 2, Len(meshes)) = StandardLegsOf(cfg)
               /\ Len(meshes) = 5
               /\ HoldsMeshes(j, meshes)

\* the statement as it stands: whatever the leg style, an edge style other
\* than 'beveled' and 'rounded' builds the straight box top
C38_OtherEdgeStylesAreStraight ==
    /\ \A j \in Assemblies :
          LET cfg == builds[j].config IN
          cfg.edgeStyle \notin {"beveled", "rounded"}
              => BuiltMeshes(cfg)[1] = StraightTopOf(cfg)
    /\ OtherLegStylesAreStandard
    /\ HasTopAndLegs

\* C38: the build is total over the style strings.  When the leg style is
\* not 'l-shape', an edge style other than 'beveled' and 'rounded' builds the
\* straight box top; a leg style other than 'u-shape', 'x-shape' and
\* 'l-shape' builds the four standard legs; the leg style 'l-shape' builds
\* the two arms and six legs of the L-shaped table whatever the edge style
\* is.  No style string, known or not, leaves the assembly without a top or
\* without legs.
C38_BuildTotalOverStyles ==
    /\ \A j \in Assemblies :
          LET cfg    == builds[j].config
              meshes == BuiltMeshes(cfg)
          IN  /\ ( cfg.legStyle # "l-shape"
                   /\ cfg.edgeStyle \notin {"beveled", "rounded"} )
                    => meshes[1] = StraightTopOf(cfg) /\ HoldsMeshes(j, meshes)
              /\ cfg.legStyle = "l-shape"
                    => meshes = LShapeTableOf(cfg) /\ HoldsMeshes(j, meshes)
    /\ OtherLegStylesAreStandard
    /\ HasTopAndLegs

\* a stored item with an edge style and a leg style that no option of the
\* page carries has been restored and built: a straight top and four
\* standard legs
C38_Witness ==
    \E j \in Assemblies :
        /\ builds[j].config.edgeStyle = "wavy"
        /\ builds[j].config.legStyle = "tripod"
        /\ tableModelGroup = j
        /\ Len(builds[j].parts) = 5
        /\ builds[j].parts[1].name = "TableTop"
        /\ builds[j].parts[5].name = "StandardLeg_3"

\* an L-shaped table was built for the edge style 'straight'
LShapeWithStraightEdge ==
    \E j \in Assemblies :
        /\ builds[j].config.edgeStyle = "straight"
        /\ builds[j].config.legStyle = "l-shape"

----------------------------------------------------------------------------
(* C39 *)

\* an assembly is attached: the tracked group was built and is in the scene
AssemblyAttached ==
    /\ tableModelGroup # Null
    /\ builds[tableModelGroup].returned = "group"
    /\ Obj("group", tableModelGroup) \in scene

\* C39: whenever an assembly is attached, the header shows the material and
\* the edge style of the configuration that assembly was built from: the
\* deferred step never pairs an assembly built from a snapshot with a header
\* taken from a newer appState.
C39_HeaderOfAttachedAssembly ==
    AssemblyAttached
        => header = updateModelHeader(builds[tableModelGroup].config.material,
                                      builds[tableModelGroup].config.edgeStyle)

\* what holds: the header is the one of appState as it was when the deferred
\* step ran
HeaderOfAppStateAtBuild ==
    AssemblyAttached
        => header = updateModelHeader(builds[tableModelGroup].hist.appCfg.material,
                                      builds[tableModelGroup].hist.appCfg.edgeStyle)

\* an assembly built from a snapshot with straight edges is attached under a
\* header that names the beveled edge
StraightAssemblyBeveledHeader ==
    /\ AssemblyAttached
    /\ builds[tableModelGroup].config.edgeStyle = "straight"
    /\ header.edge = "beveled"

====
